---- MODULE Spec2Model ----
(***************************************************************************)
(* Model of the znodes Zcash network crawler: the known-network store      *)
(* (record map and edge set), the transport's connection bookkeeping, the  *)
(* dial tasks, the per-connection message handlers, the crawl scheduler,   *)
(* the DNS refresh task and the eviction step of the snapshot thread.      *)
(* Time is in whole seconds.  An Option<T> is a set with at most one       *)
(* element: {} is None and {x} is Some(x).                                 *)
(***************************************************************************)
EXTENDS Integers, Sequences, FiniteSets, Bags, TLC

\* ---------------------------------------------------------------- constants
LAST_SEEN_CUTOFF == 600
NUM_CONN_ATTEMPTS_PERIODIC == 2000
MAX_CONCURRENT_CONNECTIONS == 3500
RECONNECT_INTERVAL_SECS == 45
MAX_WAIT_FOR_ADDR_SECS == 90
HANDSHAKE_TIMEOUT_SECS == 2
DNS_REFRESH == 120
SUMMARY_INTERVAL == 60
SEED_TIMEOUT_SECS == 120
CONN_WAIT_SECS == 15
U8_MODULUS == 256

\* ------------------------------------------------------------------- bounds
NumAddrs == 2        \* socket addresses of the modelled network
MaxSeeds == 2        \* length of the resolved seed list
MaxAddrLen == 2      \* entries of one Addr payload
MaxDials == 1        \* dial tasks spawned by the scheduler and the DNS task
MaxMsgs == 2         \* inbound messages processed
MaxTicks == 1        \* scheduler ticks
MaxCycles == 1       \* snapshot thread cycles
MaxAdvances == 1     \* clock advances
MaxHandlers == 1     \* connections whose handler runs at the same time
MaxRedials == 2      \* dials of one address in the failure-counter runs
MaxRpc == 1          \* RPC handlers running at the same time
MaxCalls == 1        \* RPC calls served
MaxArgs == 2         \* --seed-addrs arguments
MaxSnapshots == 2    \* snapshot cycles in the runs over several cycles

Addrs == 1..NumAddrs

\* Seq(S) restricted to length lo..hi
SeqsUpTo(S, lo, hi) == UNION {[1..n -> S] : n \in lo..hi}

\* Addr payloads; entries in ascending order, the handler does not depend on
\* the order of a list of two or more
AddrLists ==
  {l \in SeqsUpTo(Addrs, 0, MaxAddrLen) : \A i, j \in DOMAIN l : i < j => l[i] <= l[j]}
\* the addresses are interchangeable: a seed list names them in order of
\* first appearance
SeedLists ==
  {s \in SeqsUpTo(Addrs, 1, MaxSeeds) :
     \A i \in DOMAIN s : s[i] = 1 \/ \E j \in 1..(i - 1) : s[j] = s[i] - 1}
Range(s) == {s[i] : i \in DOMAIN s}

\* the clock moves by the reconnect interval or to just past the edge cutoff
ClockSteps == {RECONNECT_INTERVAL_SECS, LAST_SEEN_CUTOFF + 1}

\* "/MagicBean:5.4.2/"
UA_MagicBean542 ==
  <<"/", "M", "a", "g", "i", "c", "B", "e", "a", "n", ":", "5", ".", "4", ".", "2", "/">>

\* the Version payloads a peer may send
VersionMsgs ==
  { [version |-> 170100, user_agent |-> UA_MagicBean542,
     services |-> 1, start_height |-> 2700000] }

VARIABLES
  seeds,        \* main: addrs, the resolved seed list
  nodes,        \* KnownNetwork.nodes : addr -> KnownNode
  connections,  \* KnownNetwork.connections : set of KnownConnection
  connected,    \* transport: addresses with an established connection
  connecting,   \* transport: addresses with a dial registered
  otherConns,   \* transport: connections to addresses outside Addrs
  sent,         \* messages written to each open connection, in order
  now,          \* the clock (Instant::now())
  dials,        \* bag of dial tasks
  handlers,     \* per connection: the message being processed
  sched,        \* main / crawl_task position and locals
  snap,         \* snapshot thread position and locals
  used,         \* how much of each budget has been spent
  main,         \* main: position of the orchestrator and the exit code
  graph,        \* NetworkMetrics.graph, owned by the snapshot thread
  summary,      \* the summary slot shared with RPC
  nodes_snap,   \* the record-map slot shared with RPC
  locks,        \* who holds the mutex of each slot
  rpc           \* RPC handlers: method, position and locals

\* what the crawl side never writes
rpcVars == <<main, graph, summary, nodes_snap, locks, rpc>>

vars == <<seeds, nodes, connections, connected, connecting, otherConns, sent,
          now, dials, handlers, sched, snap, used, main, graph, summary,
          nodes_snap, locks, rpc>>

\* ------------------------------------------------------------ the store
KnownNodeDefault ==
  [ last_connected |-> {}, handshake_time |-> {}, protocol_version |-> {},
    user_agent |-> {}, start_height |-> {}, services |-> {},
    connection_failures |-> 0, state |-> "Disconnected" ]

known == DOMAIN nodes

\* HashMap::insert(a, v): overwrites
MapInsert(m, a, v) == [x \in DOMAIN m \cup {a} |-> IF x = a THEN v ELSE m[x]]

\* HashMap::entry(a).or_default() for every a of S
MapOrDefault(m, S) ==
  [x \in DOMAIN m \cup S |-> IF x \in DOMAIN m THEN m[x] ELSE KnownNodeDefault]

\* KnownConnection::new(src, a)
NewConnection(src, a, t) == [a |-> src, b |-> a, last_seen |-> t]

\* KnownConnection equality: by endpoint pair, last_seen is not compared
ConnEq(c, d) == c.a = d.a /\ c.b = d.b

\* HashSet::insert: a value equal to one already stored is dropped
SetInsert(S, c) == IF \E d \in S : ConnEq(d, c) THEN S ELSE S \cup {c}

\* remove_old_connections clearing the whole set
RemoveAll_Clear(S, old) == {}

\* HashSet::remove for every element of old
RemoveAll(S, old) == {c \in S : \A x \in old : ~ConnEq(c, x)}

RECURSIVE InsertAll(_, _, _, _)
InsertAll(S, src, list, t) ==
  IF list = <<>> THEN S
  ELSE InsertAll(SetInsert(S, NewConnection(src, Head(list), t)), src, Tail(list), t)

\* add_addrs, first lock scope (connections)
AddAddrsEdges(S, src, list, t) == InsertAll(S, src, list, t)

\* add_addrs written with insert(_, default) in place of entry(_).or_default()
AddAddrsNodes_Insert(m, src, list) ==
  [x \in DOMAIN m \cup {src} \cup Range(list) |->
     IF x \in {src} \cup Range(list) THEN KnownNodeDefault ELSE m[x]]

\* add_addrs, second lock scope (nodes)
AddAddrsNodes(m, src, list) == MapOrDefault(MapOrDefault(m, {src}), Range(list))

\* set_node_state
SetNodeState(m, a, st) ==
  IF a \in DOMAIN m THEN [m EXCEPT ![a].state = st] ELSE m

\* connect's Ok arm without the last_connected store
ConnectOk_NoTimestamp(n, ts, t) ==
  [n EXCEPT !.connection_failures = 0, !.handshake_time = {t - ts},
            !.state = "Connected"]

\* connect, the record update on Ok
ConnectOk(n, ts, t) ==
  [n EXCEPT !.connection_failures = 0, !.last_connected = {ts},
            !.handshake_time = {t - ts}, !.state = "Connected"]

\* connect's Err arm without the increment
ConnectErr_NoIncrement(n) == {n}

\* connect's Err arm also marking the record Connected
ConnectErr_MarksConnected(n) ==
  {[n EXCEPT !.connection_failures = (@ + 1) % U8_MODULUS, !.state = "Connected"]}

\* connect, the record update on Err: u8 += 1.  At 255 a build without
\* overflow checks wraps to 0 and a build with them panics before the store.
ConnectErr(n) ==
  IF n.connection_failures + 1 < U8_MODULUS
  THEN {[n EXCEPT !.connection_failures = @ + 1]}
  ELSE {[n EXCEPT !.connection_failures = (@ + 1) % U8_MODULUS], n}

\* connect, lines 38-43: the maps the store can hold afterwards
ConnectUpdate(m, a, ok, ts, t) ==
  IF a \notin DOMAIN m THEN {m}
  ELSE IF ok THEN {[m EXCEPT ![a] = ConnectOk(m[a], ts, t)]}
  ELSE {[m EXCEPT ![a] = r] : r \in ConnectErr(m[a])}

\* ------------------------------------------------------------ the transport
NumConnected == Cardinality(connected) + otherConns
NumConnecting == Cardinality(connecting)

\* Node::connect refuses at max_connections and for a known or pending peer
CanConnect(a) ==
  /\ NumConnected + NumConnecting < MAX_CONCURRENT_CONNECTIONS
  /\ a \notin connected
  /\ a \notin connecting

\* should_connect with > for >= in the cap test
should_connect_OffByOne(a) ==
  IF a \notin known THEN FALSE
  ELSE IF NumConnected + NumConnecting > MAX_CONCURRENT_CONNECTIONS THEN FALSE
  ELSE IF a \in connected \/ a \in connecting THEN FALSE
  ELSE TRUE

\* should_connect without the cap test
should_connect_NoCap(a) ==
  IF a \notin known THEN FALSE
  ELSE IF a \in connected \/ a \in connecting THEN FALSE
  ELSE TRUE

\* Crawler::should_connect
should_connect(a) ==
  IF a \notin known THEN FALSE
  ELSE IF NumConnected + NumConnecting >= MAX_CONCURRENT_CONNECTIONS THEN FALSE
  ELSE IF a \in connected \/ a \in connecting THEN FALSE
  ELSE TRUE

\* the disconnect condition without the self-echo exception
ShouldDisconnect_AnyEntry(list, src) == Len(list) >= 1

\* process_message, Addr: the disconnect condition
ShouldDisconnect(list, src) ==
  Len(list) > 1 \/ (Len(list) = 1 /\ list[1] # src)

\* ------------------------------------------------------------ classification
\* rpc.rs.  A string is the sequence of its characters.
MAX_HEIGHT_DELTA == 10000
MIN_MAINNET_HEIGHT == 2500000
ZCASH_MAINNET_PORT == 8233

\* str::to_lowercase on the ASCII letters
LowerCase ==
  ("A" :> "a") @@ ("B" :> "b") @@ ("C" :> "c") @@ ("D" :> "d") @@ ("E"
  :> "e") @@ ("F" :> "f") @@ ("G" :> "g") @@ ("H" :> "h") @@ ("I" :>
  "i") @@ ("J" :> "j") @@ ("K" :> "k") @@ ("L" :> "l") @@ ("M" :> "m")
  @@ ("N" :> "n") @@ ("O" :> "o") @@ ("P" :> "p") @@ ("Q" :> "q") @@
  ("R" :> "r") @@ ("S" :> "s") @@ ("T" :> "t") @@ ("U" :> "u") @@ ("V"
  :> "v") @@ ("W" :> "w") @@ ("X" :> "x") @@ ("Y" :> "y") @@ ("Z" :>
  "z")
ToLower(s) == [i \in DOMAIN s |-> IF s[i] \in DOMAIN LowerCase THEN LowerCase[s[i]] ELSE s[i]]

\* str::contains and str::starts_with
Contains(s, sub) ==
  \E i \in 1..(Len(s) - Len(sub) + 1) : SubSeq(s, i, i + Len(sub) - 1) = sub
StartsWith(s, pre) == Len(s) >= Len(pre) /\ SubSeq(s, 1, Len(pre)) = pre

S_flux == <<"f", "l", "u", "x">>
S_magicbean == <<"m", "a", "g", "i", "c", "b", "e", "a", "n">>
S_magicbean6 == <<"m", "a", "g", "i", "c", "b", "e", "a", "n", ":", "6", ".">>
S_zebra == <<"z", "e", "b", "r", "a">>
S_slash_magicbean == <<"/", "m", "a", "g", "i", "c", "b", "e", "a", "n">>
S_slash_zebra == <<"/", "z", "e", "b", "r", "a">>

\* classify_client: (client_type, is_flux)
classify_client(user_agent) ==
  LET ua_lower == ToLower(user_agent)
  IN IF Contains(ua_lower, S_flux) THEN <<"flux", TRUE>>
     ELSE IF Contains(ua_lower, S_magicbean6) THEN <<"flux", TRUE>>
     ELSE IF Contains(ua_lower, S_magicbean) THEN <<"zcashd", FALSE>>
     ELSE IF Contains(ua_lower, S_zebra) THEN <<"zebra", FALSE>>
     ELSE <<"other", FALSE>>

\* the elements of a set of addresses in an order that sorts them by key
SortedBy(S, key(_)) ==
  {p \in [1..Cardinality(S) -> S] :
     /\ \A i, j \in DOMAIN p : i # j => p[i] # p[j]
     /\ \A i, j \in DOMAIN p : i < j => key(p[i]) <= key(p[j])}

\* floor(n * 0.95), the index of estimate_tip_height
Percentile95(n) == (n * 95) \div 100

\* estimate_tip_height
estimate_tip_height(m) ==
  LET E == {a \in DOMAIN m : \E h \in m[a].start_height : h > MIN_MAINNET_HEIGHT}
      H(a) == CHOOSE h \in m[a].start_height : TRUE
      n == Cardinality(E)
  IN IF E = {} THEN MIN_MAINNET_HEIGHT
     ELSE LET p == CHOOSE q \in SortedBy(E, H) : TRUE
              idx == IF Percentile95(n) < n - 1 THEN Percentile95(n) ELSE n - 1
          IN H(p[idx + 1])

Abs(x) == IF x < 0 THEN -x ELSE x

\* Option::unwrap_or
UnwrapOr(opt, dflt) == IF opt = {} THEN dflt ELSE CHOOSE x \in opt : TRUE

\* is_relevant_zcash_node
is_relevant_zcash_node(node, port, tip_height) ==
  IF node.user_agent = {} THEN FALSE
  ELSE LET ua_lower == ToLower(UnwrapOr(node.user_agent, <<>>))
           height == UnwrapOr(node.start_height, 0)
       IN IF ~(StartsWith(ua_lower, S_slash_magicbean) \/
               StartsWith(ua_lower, S_slash_zebra)) THEN FALSE
          ELSE IF Contains(ua_lower, S_flux) THEN FALSE
          ELSE IF Contains(ua_lower, S_magicbean6) THEN FALSE
          ELSE IF height < MIN_MAINNET_HEIGHT THEN FALSE
          ELSE IF Abs(height - tip_height) > MAX_HEIGHT_DELTA THEN FALSE
          ELSE TRUE

\* ------------------------------------------------------------ seed parsing
ZCASH_P2P_DEFAULT_MAINNET_PORT == 8233
U16_MAX == 65535
U8_MAX == 255

\* the value of the decimal digits of l from position i on
DigitVal ==
  ("0" :> 0) @@ ("1" :> 1) @@ ("2" :> 2) @@ ("3" :> 3) @@ ("4" :> 4) @@
  ("5" :> 5) @@ ("6" :> 6) @@ ("7" :> 7) @@ ("8" :> 8) @@ ("9" :> 9)
RECURSIVE ParseNat(_, _, _)
ParseNat(l, i, acc) ==
  IF i <= Len(l) /\ l[i] \in DOMAIN DigitVal
  THEN ParseNat(l, i + 1, acc * 10 + DigitVal[l[i]])
  ELSE acc

IsDigits(l) == l # <<>> /\ \A i \in DOMAIN l : l[i] \in DOMAIN DigitVal

\* checked arithmetic: the value of the digits, or max + 1 on overflow
RECURSIVE ParseChecked(_, _, _, _)
ParseChecked(l, i, acc, max) ==
  IF i > Len(l) THEN acc
  ELSE IF acc * 10 + DigitVal[l[i]] > max THEN max + 1
  ELSE ParseChecked(l, i + 1, acc * 10 + DigitVal[l[i]], max)

\* the number parser of the address parsers: at most maxDigits digits
\* (0: any number), a zero prefix only if allowed, no value above max
ReadNumber(l, maxDigits, allowZeroPrefix, max) ==
  IF /\ IsDigits(l)
     /\ maxDigits = 0 \/ Len(l) <= maxDigits
     /\ allowZeroPrefix \/ Len(l) = 1 \/ l[1] # "0"
     /\ ParseChecked(l, 1, 0, max) <= max
  THEN {ParseChecked(l, 1, 0, max)}
  ELSE {}

\* str::split(sep): the pieces of l between the separators
RECURSIVE Split(_, _)
Split(l, sep) ==
  IF \A i \in DOMAIN l : l[i] # sep THEN <<l>>
  ELSE LET k == CHOOSE i \in DOMAIN l :
                  l[i] = sep /\ \A j \in 1..(i - 1) : l[j] # sep
       IN <<SubSeq(l, 1, k - 1)>> \o Split(SubSeq(l, k + 1, Len(l)), sep)

\* [T]::join(""): the pieces put together again
RECURSIVE Join(_)
Join(parts) == IF parts = <<>> THEN <<>> ELSE Head(parts) \o Join(Tail(parts))

\* addr.parse::<IpAddr>() for the dotted form: four octets without zero
\* prefix, each at most 255
ParseIpAddr(l) ==
  LET parts == Split(l, ".")
      octet(i) == ReadNumber(parts[i], 3, FALSE, U8_MAX)
  IN IF Len(parts) = 4 /\ \A i \in 1..4 : octet(i) # {}
     THEN {[i \in 1..4 |-> CHOOSE x \in octet(i) : TRUE]}
     ELSE {}

SocketAddrNew_PortZero(ip, port) == [ip |-> ip, port |-> 0]

\* SocketAddr::new
SocketAddrNew(ip, port) == [ip |-> ip, port |-> port]

\* addr.parse::<SocketAddr>() for the dotted form: the address, a colon, the
\* port
ParseSocketAddr(l) ==
  LET parts == Split(l, ":")
  IN IF Len(parts) # 2 THEN {}
     ELSE {SocketAddrNew(ip, port) :
             ip \in ParseIpAddr(parts[1]),
             port \in ReadNumber(parts[2], 0, TRUE, U16_MAX)}

\* str::parse::<u16>(): decimal digits after an optional plus sign
ParseU16(l) ==
  LET digits == IF l # <<>> /\ l[1] = "+" THEN Tail(l) ELSE l
  IN ReadNumber(digits, 0, TRUE, U16_MAX)

\* the addresses a name server may return for a host name
DnsIps == {<<192, 0, 2, 1>>, <<192, 0, 2, 2>>}

\* lookup_host(name): Err, which pushes nothing just as an empty answer
\* does, or Ok with any list of addresses
LookupHost(name) ==
  {<<>>} \cup {<<x>> : x \in DnsIps} \cup {<<x, y>> : x \in DnsIps, y \in DnsIps}

\* one turn of the loop of parse_addrs: the addresses pushed and the names
\* looked up
ParseOne(addr, default_port) ==
  IF ParseSocketAddr(addr) # {}
  THEN {[out |-> <<sa>>, dns |-> <<>>] : sa \in ParseSocketAddr(addr)}
  ELSE IF ParseIpAddr(addr) # {}
  THEN {[out |-> <<SocketAddrNew(ip, default_port)>>, dns |-> <<>>] :
          ip \in ParseIpAddr(addr)}
  ELSE LET parts == Split(addr, ":")
           last == ParseU16(parts[Len(parts)])
           given == Len(parts) > 1 /\ last # {}
           port == IF given THEN CHOOSE x \in last : TRUE ELSE default_port
           clean == IF given THEN Join(SubSeq(parts, 1, Len(parts) - 1)) ELSE addr
       IN {[out |-> [i \in DOMAIN ips |-> SocketAddrNew(ips[i], port)],
            dns |-> <<clean>>] : ips \in LookupHost(clean)}

\* parse_addrs: the results it can return
RECURSIVE parse_addrs(_, _)
parse_addrs(addrs, default_port) ==
  IF addrs = <<>> THEN {[out |-> <<>>, dns |-> <<>>]}
  ELSE {[out |-> h.out \o t.out, dns |-> h.dns \o t.dns] :
          h \in ParseOne(Head(addrs), default_port),
          t \in parse_addrs(Tail(addrs), default_port)}

\* Display of an integer, of an IpAddr and of a SocketAddr
DigitChar == <<"0", "1", "2", "3", "4", "5", "6", "7", "8", "9">>
RECURSIVE FormatNat(_)
FormatNat(n) ==
  IF n < 10 THEN <<DigitChar[n + 1]>>
  ELSE FormatNat(n \div 10) \o <<DigitChar[(n % 10) + 1]>>
FormatIp(ip) ==
  FormatNat(ip[1]) \o <<".">> \o FormatNat(ip[2]) \o <<".">> \o
  FormatNat(ip[3]) \o <<".">> \o FormatNat(ip[4])
FormatSocketAddr(sa) == FormatIp(sa.ip) \o <<":">> \o FormatNat(sa.port)

\* the process is past start-up and has not exited
Running == main.pc \notin {"start", "exit"}

\* ------------------------------------------------------------ tasks
SeedTask(a) == [addr |-> a, pc |-> "insert", ts |-> 0, ok |-> FALSE]
DialTask(a) == [addr |-> a, pc |-> "start", ts |-> 0, ok |-> FALSE]

RECURSIVE SeedTasks(_)
SeedTasks(s) ==
  IF s = <<>> THEN EmptyBag ELSE SetToBag({SeedTask(Head(s))}) (+) SeedTasks(Tail(s))

Idle == [kind |-> "none", list |-> <<>>, ver |-> {}, pc |-> "idle"]

Replace(d, e) == (dials (-) SetToBag({d})) (+) SetToBag({e})

\* NetworkSummary::default()
NetworkSummaryDefault ==
  [ num_known_nodes |-> 0, num_good_nodes |-> 0, num_known_connections |-> 0,
    num_versions |-> 0, crawler_runtime |-> 0, node_addrs |-> <<>>,
    nodes_indices |-> <<>> ]

\* holders of a slot mutex: nobody, main, or the RPC handler h >= 1
NoHolder == 0
MainHolder == -1

RpcIdle == [method |-> "none", pc |-> "idle", tip |-> 0, flux |-> FALSE, resp |-> {}]

\* main at position mpc, the crawl side at spc, nothing published yet
InitAt(other, mpc, spc) ==
  /\ connections = {}
  /\ connected = {}
  /\ connecting = {}
  /\ otherConns = other
  /\ sent = [a \in Addrs |-> <<>>]
  /\ now = 0
  /\ handlers = [a \in Addrs |-> Idle]
  /\ sched = [pc |-> spc, t |-> 0, clone |-> {}, rest |-> {}, reaped |-> {},
              cur |-> 0, need |-> <<>>, have |-> <<>>,
              targets |-> <<>>]
  /\ snap = [pc |-> "off", next |-> 0, old |-> {}, cycle |-> 0,
             nodes |-> <<>>, built |-> {}]
  /\ used = [dials |-> 0, msgs |-> 0, ticks |-> 0, cycles |-> 0, adv |-> 0,
             rpcs |-> 0]
  /\ main = [pc |-> mpc, exit |-> {}, log |-> {}, args |-> <<>>, dns |-> <<>>]
  /\ graph = {}
  /\ summary = [val |-> NetworkSummaryDefault, cycle |-> 0]
  /\ nodes_snap = [val |-> <<>>, cycle |-> 0]
  /\ locks = [summary |-> NoHolder, nodes |-> NoHolder]
  /\ rpc = [h \in 1..MaxRpc |-> RpcIdle]

\* the state main has built when the seed tasks have been spawned
InitCommon(other) == InitAt(other, "run", "wait_conn")

\* main.rs:94: the seed list has been resolved, nothing is created yet
Init ==
  /\ seeds \in SeedLists \cup {<<>>}
  /\ nodes = [a \in {} |-> KnownNodeDefault]
  /\ dials = EmptyBag
  /\ InitAt(0, "start", "off")

\* the crawler one connection below the transport's cap, the open
\* connections being to addresses outside Addrs
InitCap ==
  /\ seeds = <<1>>
  /\ nodes = [a \in {} |-> KnownNodeDefault]
  /\ dials = EmptyBag
  /\ InitAt(MAX_CONCURRENT_CONNECTIONS - 1, "start", "off")

\* a record with any number of earlier failed dials, no dial in flight
InitCounter ==
  /\ seeds = <<1>>
  /\ \E c \in 0..(U8_MODULUS - 1) :
       nodes = [a \in {1} |-> [KnownNodeDefault EXCEPT !.connection_failures = c]]
  /\ dials = EmptyBag
  /\ InitCommon(0)

\* ------------------------------------------------------------ start-up
\* main.rs:95-114: no seed address ends main, which makes the process exit
\* with code 0; otherwise the crawler is created and the seed tasks spawned
MainStart ==
  /\ main.pc = "start"
  /\ IF seeds = <<>>
     THEN /\ main' = [main EXCEPT !.pc = "exit", !.exit = {0}]
          /\ UNCHANGED <<dials, sched>>
     ELSE /\ main' = [main EXCEPT !.pc = "run"]
          /\ dials' = SeedTasks(seeds)
          /\ sched' = [sched EXCEPT !.pc = "wait_conn"]
  /\ UNCHANGED <<graph, summary, nodes_snap, locks, rpc, seeds, nodes,
                 connections, connected, connecting, otherConns, sent, now,
                 handlers, snap, used>>

\* ------------------------------------------------------------ dial tasks
\* a dial task of address a at position pc
TasksAt(a, pc) == {d \in BagToSet(dials) : d.addr = a /\ d.pc = pc}

\* main.rs:113, the seed task's insert
SeedInsert(a) ==
  /\ Running
  /\ \E d \in TasksAt(a, "insert") :
       dials' = Replace(d, [d EXCEPT !.pc = "start"])
  /\ nodes' = MapInsert(nodes, a, KnownNodeDefault)
  /\ UNCHANGED <<rpcVars, seeds, connections, connected, connecting, otherConns, sent,
                 now, handlers, sched, snap, used>>

\* connect: ts is taken and the dial is registered with the transport
DialStart(a) ==
  /\ Running
  /\ \E d \in TasksAt(a, "start") :
       IF CanConnect(a)
       THEN /\ connecting' = connecting \cup {a}
            /\ dials' = Replace(d, [d EXCEPT !.pc = "conn", !.ts = now])
       ELSE /\ connecting' = connecting
            /\ dials' = Replace(d, [d EXCEPT !.pc = "record", !.ts = now, !.ok = FALSE])
  /\ UNCHANGED <<rpcVars, seeds, nodes, connections, connected, otherConns, sent,
                 now, handlers, sched, snap, used>>

\* the TCP connect and the handshake finish within TIMEOUT_MS
DialSucceed(a) ==
  /\ Running
  /\ \E d \in TasksAt(a, "conn") :
       /\ now - d.ts <= HANDSHAKE_TIMEOUT_SECS
       /\ dials' = Replace(d, [d EXCEPT !.pc = "record", !.ok = TRUE])
  /\ connecting' = connecting \ {a}
  /\ connected' = connected \cup {a}
  /\ sent' = [sent EXCEPT ![a] = <<>>]
  /\ UNCHANGED <<rpcVars, seeds, nodes, connections, otherConns, now, handlers, sched,
                 snap, used>>

\* the TCP connect or the handshake fails or times out
DialFail(a) ==
  /\ Running
  /\ \E d \in TasksAt(a, "conn") :
       dials' = Replace(d, [d EXCEPT !.pc = "record", !.ok = FALSE])
  /\ connecting' = connecting \ {a}
  /\ UNCHANGED <<rpcVars, seeds, nodes, connections, connected, otherConns, sent, now,
                 handlers, sched, snap, used>>

\* connect, lines 38-43: the result is written to the record
DialRecord(a) ==
  /\ Running
  /\ \E d \in TasksAt(a, "record") :
       /\ nodes' \in ConnectUpdate(nodes, a, d.ok, d.ts, now)
       /\ dials' = dials (-) SetToBag({d})
  /\ UNCHANGED <<rpcVars, seeds, connections, connected, connecting, otherConns, sent,
                 now, handlers, sched, snap, used>>

\* a further dial of a known address is spawned once the previous one is done
Redial(a) ==
  /\ Running
  /\ a \in known
  /\ dials = EmptyBag
  /\ used.dials < MaxRedials
  /\ dials' = SetToBag({DialTask(a)})
  /\ used' = [used EXCEPT !.dials = @ + 1]
  /\ UNCHANGED <<rpcVars, seeds, nodes, connections, connected, connecting, otherConns,
                 sent, now, handlers, sched, snap>>

Dial ==
  \E a \in Addrs :
    SeedInsert(a) \/ DialStart(a) \/ DialSucceed(a) \/ DialFail(a) \/ DialRecord(a)

\* ------------------------------------------------------------ message handlers
AddrMsg(list) == [kind |-> "Addr", list |-> list, ver |-> {}, pc |-> "nodes"]
VersionMsg(v) == [kind |-> "Version", list |-> <<>>, ver |-> {v}, pc |-> "verack"]

\* the reader of an open connection hands the next inbound message to
\* process_message
Receive(src) ==
  /\ src \in connected
  /\ handlers[src] = Idle
  /\ Cardinality({a \in Addrs : handlers[a] # Idle}) < MaxHandlers
  /\ used.msgs < MaxMsgs
  /\ used' = [used EXCEPT !.msgs = @ + 1]

\* process_message, Addr: add_addrs takes the connections lock
AddrEdges(src, list) ==
  /\ Running
  /\ Receive(src)
  /\ connections' = AddAddrsEdges(connections, src, list, now)
  /\ handlers' = [handlers EXCEPT ![src] = AddrMsg(list)]
  /\ UNCHANGED <<rpcVars, seeds, nodes, connected, connecting, otherConns, sent, now,
                 dials, sched, snap>>

\* process_message, Addr: add_addrs takes the nodes lock and returns
AddrNodes(src) ==
  /\ Running
  /\ handlers[src].pc = "nodes"
  /\ nodes' = AddAddrsNodes(nodes, src, handlers[src].list)
  /\ handlers' = [handlers EXCEPT ![src] =
                    IF ShouldDisconnect(handlers[src].list, src)
                    THEN [@ EXCEPT !.pc = "disc"] ELSE Idle]
  /\ UNCHANGED <<rpcVars, seeds, connections, connected, connecting, otherConns, sent,
                 now, dials, sched, snap, used>>

\* process_message, Addr: node().disconnect(src)
AddrDisconnect(src) ==
  /\ Running
  /\ handlers[src].pc = "disc"
  /\ connected' = connected \ {src}
  /\ handlers' = [handlers EXCEPT ![src].pc = "setstate"]
  /\ UNCHANGED <<rpcVars, seeds, nodes, connections, connecting, otherConns, sent, now,
                 dials, sched, snap, used>>

\* process_message, Addr: set_node_state(src, Disconnected)
AddrSetState(src) ==
  /\ Running
  /\ handlers[src].pc = "setstate"
  /\ nodes' = SetNodeState(nodes, src, "Disconnected")
  /\ handlers' = [handlers EXCEPT ![src] = Idle]
  /\ UNCHANGED <<rpcVars, seeds, connections, connected, connecting, otherConns, sent,
                 now, dials, sched, snap, used>>

\* process_message, Version: the four fields are stored
RecordVersion(n, v) ==
  [n EXCEPT !.protocol_version = {v.version}, !.user_agent = {v.user_agent},
            !.services = {v.services}, !.start_height = {v.start_height}]

VersionRecord(src, v) ==
  /\ Running
  /\ Receive(src)
  /\ nodes' = IF src \in known
              THEN [nodes EXCEPT ![src] = RecordVersion(@, v)]
              ELSE nodes
  /\ handlers' = [handlers EXCEPT ![src] = VersionMsg(v)]
  /\ UNCHANGED <<rpcVars, seeds, connections, connected, connecting, otherConns, sent,
                 now, dials, sched, snap>>

\* let _ = unicast(src, m)?.await: an error of unicast (no open connection)
\* ends the handler; otherwise the message is queued and the handler goes on
\* whatever the awaited delivery result is, which is dropped
Unicast(src, m, nextpc) ==
  IF src \in connected
  THEN /\ \E delivered \in BOOLEAN :
            sent' = IF delivered THEN [sent EXCEPT ![src] = Append(@, m)] ELSE sent
       /\ handlers' = [handlers EXCEPT ![src] =
                         IF nextpc = "idle" THEN Idle ELSE [@ EXCEPT !.pc = nextpc]]
  ELSE /\ sent' = sent
       /\ handlers' = [handlers EXCEPT ![src] = Idle]

VersionVerack(src) ==
  /\ Running
  /\ handlers[src].pc = "verack"
  /\ Unicast(src, "Verack", "getaddr")
  /\ UNCHANGED <<rpcVars, seeds, nodes, connections, connected, connecting, otherConns,
                 now, dials, sched, snap, used>>

VersionGetAddr(src) ==
  /\ Running
  /\ handlers[src].pc = "getaddr"
  /\ Unicast(src, "GetAddr", "idle")
  /\ UNCHANGED <<rpcVars, seeds, nodes, connections, connected, connecting, otherConns,
                 now, dials, sched, snap, used>>

Handler ==
  \E src \in Addrs :
    \/ \E list \in AddrLists : AddrEdges(src, list)
    \/ AddrNodes(src) \/ AddrDisconnect(src) \/ AddrSetState(src)
    \/ \E v \in VersionMsgs : VersionRecord(src, v)
    \/ VersionVerack(src) \/ VersionGetAddr(src)

\* ------------------------------------------------------------ main and crawl_task
\* main.rs:133, up to 30 polls of 500 ms for a first connection
MainWaitConn ==
  /\ Running
  /\ sched.pc = "wait_conn"
  /\ NumConnected >= 1 \/ now >= CONN_WAIT_SECS
  /\ sched' = [sched EXCEPT !.pc = "wait_addrs", !.t = now]
  /\ UNCHANGED <<rpcVars, seeds, nodes, connections, connected, connecting, otherConns,
                 sent, now, dials, handlers, snap, used>>

\* main.rs:136-140, then crawl_task and the snapshot thread are spawned
MainWaitAddrs ==
  /\ Running
  /\ sched.pc = "wait_addrs"
  /\ Cardinality(known) > Len(seeds) \/ now - sched.t >= SEED_TIMEOUT_SECS
  /\ sched' = [sched EXCEPT !.pc = "tick", !.t = 0]
  /\ snap' = [snap EXCEPT !.pc = "idle", !.next = now]
  /\ UNCHANGED <<rpcVars, seeds, nodes, connections, connected, connecting, otherConns,
                 sent, now, dials, handlers, used>>

\* the reap filter with > in place of >=
ReapFilter_Strict(st, lc, t) ==
  st = "Connected" /\ (lc = {} \/ \E x \in lc : t - x > MAX_WAIT_FOR_ADDR_SECS)

\* the reap filter of main.rs:147-148
ReapFilter(st, lc, t) ==
  st = "Connected" /\ (lc = {} \/ \E x \in lc : t - x >= MAX_WAIT_FOR_ADDR_SECS)

\* the cooldown test with map_or(true, _): a record never connected cools too
InCooldown_NoneCools(lc, t) ==
  lc = {} \/ \E x \in lc : t - x < RECONNECT_INTERVAL_SECS

\* the cooldown test of main.rs:155
InCooldown(lc, t) == \E x \in lc : t - x < RECONNECT_INTERVAL_SECS

Perms(S) == {s \in [1..Cardinality(S) -> S] : Range(s) = S}
Take(s, n) == SubSeq(s, 1, IF n < Len(s) THEN n ELSE Len(s))
SatSub(a, b) == IF a > b THEN a - b ELSE 0

\* the target list with the addresses that have handshake data put first
Targets_HaveFirst(need, have) ==
  LET t1 == Take(have, NUM_CONN_ATTEMPTS_PERIODIC)
  IN t1 \o Take(need, SatSub(NUM_CONN_ATTEMPTS_PERIODIC, Len(t1)))

\* main.rs:164-166
Targets(need, have) ==
  LET t1 == Take(need, NUM_CONN_ATTEMPTS_PERIODIC)
  IN t1 \o Take(have, SatSub(NUM_CONN_ATTEMPTS_PERIODIC, Len(t1)))

\* main.rs:188: crawl_task.abort() has been called and the task is not yet
\* dropped
AbortRequested == main.pc = "await"

\* the Connected entries of a clone of the record map
ConnectedEntries(m) ==
  {<<a, m[a].last_connected>> : a \in {x \in DOMAIN m : m[x].state = "Connected"}}

\* a tick starts: the record map is cloned for the reap loop; an aborted task
\* is not polled again once it is suspended. clone is what the loop iterates,
\* rest the part the iterator has not reached, t the instant of the clone
SchedTick ==
  /\ Running
  /\ ~AbortRequested
  /\ sched.pc \in {"tick", "sleep"}
  /\ used.ticks < MaxTicks
  /\ used' = [used EXCEPT !.ticks = @ + 1]
  /\ sched' = [sched EXCEPT !.pc = "reap", !.t = now,
                            !.clone = ConnectedEntries(nodes),
                            !.rest = ConnectedEntries(nodes), !.reaped = {}]
  /\ UNCHANGED <<rpcVars, seeds, nodes, connections, connected, connecting, otherConns,
                 sent, now, dials, handlers, snap>>

\* the reap loop reaches an entry that passes the filter: disconnect(addr).
\* The filter is lazy and the map is iterated in no particular order: the
\* entries the iterator passed over on its way did not pass the filter
SchedReapNext ==
  /\ Running
  /\ sched.pc = "reap"
  /\ \E e \in sched.rest :
       /\ ReapFilter("Connected", e[2], now)
       /\ connected' = connected \ {e[1]}
       /\ \E skipped \in SUBSET {x \in sched.rest : ~ReapFilter("Connected", x[2], now)} :
            sched' = [sched EXCEPT !.pc = "reap_set", !.cur = e[1],
                                   !.rest = @ \ ({e} \cup skipped)]
  /\ UNCHANGED <<rpcVars, seeds, nodes, connections, connecting, otherConns, sent, now,
                 dials, handlers, snap, used>>

\* the reap loop: set_node_state(addr, Disconnected)
SchedReapSet ==
  /\ Running
  /\ sched.pc = "reap_set"
  /\ nodes' = SetNodeState(nodes, sched.cur, "Disconnected")
  /\ sched' = [sched EXCEPT !.pc = "reap", !.cur = 0, !.reaped = @ \cup {sched.cur}]
  /\ UNCHANGED <<rpcVars, seeds, connections, connected, connecting, otherConns, sent,
                 now, dials, handlers, snap, used>>

\* main.rs:164-166: the two shuffled lists are consumed into the target list
ExtendTargets(s) ==
  [s EXCEPT !.pc = "dispatch", !.targets = Targets(s.need, s.have),
            !.need = <<>>, !.have = <<>>]

\* main.rs:151-166: candidate selection on a fresh clone
SchedSelect ==
  /\ Running
  /\ sched.pc = "reap"
  /\ \A e \in sched.rest : ~ReapFilter("Connected", e[2], now)
  /\ LET elig == {a \in known : ~InCooldown(nodes[a].last_connected, now)}
         need == {a \in elig : nodes[a].user_agent = {}}
         have == elig \ need
     IN \E p \in Perms(need), q \in Perms(have) :
          sched' = ExtendTargets([sched EXCEPT !.t = 0, !.clone = {}, !.rest = {},
                                               !.reaped = {}, !.need = p, !.have = q])
  /\ UNCHANGED <<rpcVars, seeds, nodes, connections, connected, connecting, otherConns,
                 sent, now, dials, handlers, snap, used>>

\* main.rs:168: one target of the dispatch loop
SchedDispatch ==
  /\ Running
  /\ sched.pc = "dispatch"
  /\ sched.targets # <<>>
  /\ LET a == Head(sched.targets)
     IN IF should_connect(a)
        THEN /\ used.dials < MaxDials
             /\ dials' = dials (+) SetToBag({DialTask(a)})
             /\ used' = [used EXCEPT !.dials = @ + 1]
        ELSE UNCHANGED <<dials, used>>
  /\ sched' = [sched EXCEPT !.targets = Tail(@)]
  /\ UNCHANGED <<rpcVars, seeds, nodes, connections, connected, connecting, otherConns,
                 sent, now, handlers, snap>>

\* main.rs:169
SchedSleep ==
  /\ Running
  /\ sched.pc = "dispatch"
  /\ sched.targets = <<>>
  /\ sched' = [sched EXCEPT !.pc = "sleep"]
  /\ UNCHANGED <<rpcVars, seeds, nodes, connections, connected, connecting, otherConns,
                 sent, now, dials, handlers, snap, used>>

\* main.rs:143-171, the loop of crawl_task
CrawlTask ==
  \/ SchedTick \/ SchedReapNext \/ SchedReapSet
  \/ SchedSelect \/ SchedDispatch \/ SchedSleep

Scheduler == MainWaitConn \/ MainWaitAddrs \/ CrawlTask

\* ------------------------------------------------------------ DNS refresh task
\* the lock scope of the refresh inserting without the contains_key test
DnsInsert_Overwrite(m, a) ==
  [nodes |-> MapInsert(m, a, KnownNodeDefault), new |-> TRUE]

\* main.rs:126, the lock scope: the map afterwards and the flag new
DnsInsert(m, a) ==
  IF a \notin DOMAIN m
  THEN [nodes |-> MapInsert(m, a, KnownNodeDefault), new |-> TRUE]
  ELSE [nodes |-> m, new |-> FALSE]

\* main.rs:123-127 for one resolved address
DnsRefresh(a) ==
  /\ Running
  /\ now >= DNS_REFRESH
  /\ LET r == DnsInsert(nodes, a)
     IN /\ nodes' = r.nodes
        /\ IF r.new
           THEN /\ used.dials < MaxDials
                /\ dials' = dials (+) SetToBag({DialTask(a)})
                /\ used' = [used EXCEPT !.dials = @ + 1]
           ELSE UNCHANGED <<dials, used>>
  /\ UNCHANGED <<rpcVars, seeds, connections, connected, connecting, otherConns, sent,
                 now, handlers, sched, snap>>

\* ------------------------------------------------------------ snapshot thread
\* remove_old_connections: the edge set is cloned and filtered
EvictSnap ==
  /\ Running
  /\ snap.pc = "idle"
  /\ now >= snap.next
  /\ used.cycles < MaxCycles
  /\ used' = [used EXCEPT !.cycles = @ + 1]
  /\ LET old == {c \in connections : now - c.last_seen > LAST_SEEN_CUTOFF}
     IN snap' = [snap EXCEPT !.pc = IF old = {} THEN "graph" ELSE "remove",
                             !.next = now + SUMMARY_INTERVAL, !.old = old,
                             !.cycle = @ + 1]
  /\ UNCHANGED <<rpcVars, seeds, nodes, connections, connected, connecting, otherConns,
                 sent, now, dials, handlers, sched>>

\* remove_old_connections: the old edges are removed under the write lock
EvictRemove ==
  /\ Running
  /\ snap.pc = "remove"
  /\ connections' = RemoveAll(connections, snap.old)
  /\ snap' = [snap EXCEPT !.pc = "graph", !.old = {}]
  /\ UNCHANGED <<rpcVars, seeds, nodes, connected, connecting, otherConns, sent, now,
                 dials, handlers, sched, used>>

\* Edge::new(a, b): an edge of the adjacency graph has no direction
GraphEdge(a, b) == {a, b}

\* update_graph over a clone of the edge set: a stale edge is removed from the
\* graph and a live one inserted, in the iteration order of the set, so an
\* edge that has a stale and a live direction ends either way
UpdateGraph(g, conns, t) ==
  LET stale == {GraphEdge(c.a, c.b) :
                  c \in {x \in conns : t - x.last_seen > LAST_SEEN_CUTOFF}}
      live == {GraphEdge(c.a, c.b) :
                 c \in {x \in conns : t - x.last_seen <= LAST_SEEN_CUTOFF}}
  IN {((g \ stale) \cup (live \ stale)) \cup X : X \in SUBSET (live \cap stale)}

\* build_summary from the two clones and the graph
BuildSummary(nds, conns, g, t) ==
  LET G == {a \in DOMAIN nds : nds[a].last_connected # {}}
      Id(a) == a
      good == CHOOSE p \in SortedBy(G, Id) : TRUE
  IN [ num_known_nodes |-> Cardinality(DOMAIN nds),
       num_good_nodes |-> Len(good),
       num_known_connections |-> Cardinality(conns),
       num_versions |-> Cardinality({a \in DOMAIN nds : nds[a].protocol_version # {}}),
       crawler_runtime |-> t,
       node_addrs |-> good,
       nodes_indices |->
         [i \in DOMAIN good |->
            {j - 1 : j \in {k \in DOMAIN good :
                              good[i] # good[k] /\ GraphEdge(good[i], good[k]) \in g}}] ]

\* main.rs:180, metrics.update_graph
SnapUpdateGraph ==
  /\ Running
  /\ snap.pc = "graph"
  /\ graph' \in UpdateGraph(graph, connections, now)
  /\ snap' = [snap EXCEPT !.pc = "build_nodes"]
  /\ UNCHANGED <<main, summary, nodes_snap, locks, rpc, seeds, nodes,
                 connections, connected, connecting, otherConns, sent, now,
                 dials, handlers, sched, used>>

\* build_summary: the record map is cloned
SnapBuildNodes ==
  /\ Running
  /\ snap.pc = "build_nodes"
  /\ snap' = [snap EXCEPT !.pc = "build_conns", !.nodes = nodes]
  /\ UNCHANGED <<rpcVars, seeds, nodes, connections, connected, connecting,
                 otherConns, sent, now, dials, handlers, sched, used>>

\* build_summary: the edge set is cloned and the summary computed
SnapBuildSummary ==
  /\ Running
  /\ snap.pc = "build_conns"
  /\ snap' = [snap EXCEPT !.pc = "pub_summary", !.nodes = <<>>,
                 !.built = {BuildSummary(snap.nodes, connections, graph, now)}]
  /\ UNCHANGED <<rpcVars, seeds, nodes, connections, connected, connecting,
                 otherConns, sent, now, dials, handlers, sched, used>>

\* Mutex::lock of a slot returns
CanLock_Unguarded(slot) == TRUE

CanLock(slot) == locks[slot] = NoHolder

\* the summary guard kept by the thread instead of dropped with the statement
SnapPublishSummary_KeepGuard ==
  /\ Running
  /\ snap.pc = "pub_summary"
  /\ CanLock("summary")
  /\ summary' = [val |-> UnwrapOr(snap.built, NetworkSummaryDefault),
                 cycle |-> snap.cycle]
  /\ locks' = [locks EXCEPT !.summary = MaxRpc + 1]
  /\ snap' = [snap EXCEPT !.pc = "clone_nodes", !.built = {}]
  /\ UNCHANGED <<main, graph, nodes_snap, rpc, seeds, nodes,
                 connections, connected, connecting, otherConns, sent, now,
                 dials, handlers, sched, used>>

\* main.rs:181: *sum.lock() = <the summary built>
SnapPublishSummary ==
  /\ Running
  /\ snap.pc = "pub_summary"
  /\ CanLock("summary")
  /\ summary' = [val |-> UnwrapOr(snap.built, NetworkSummaryDefault),
                 cycle |-> snap.cycle]
  /\ snap' = [snap EXCEPT !.pc = "clone_nodes", !.built = {}]
  /\ UNCHANGED <<main, graph, nodes_snap, locks, rpc, seeds, nodes,
                 connections, connected, connecting, otherConns, sent, now,
                 dials, handlers, sched, used>>

\* main.rs:182, right-hand side: the record map is cloned
SnapCloneNodes ==
  /\ Running
  /\ snap.pc = "clone_nodes"
  /\ snap' = [snap EXCEPT !.pc = "pub_nodes", !.nodes = nodes]
  /\ UNCHANGED <<rpcVars, seeds, nodes, connections, connected, connecting,
                 otherConns, sent, now, dials, handlers, sched, used>>

\* the cycle ending without the store to the record-map slot
SnapPublishNodes_Skip ==
  /\ Running
  /\ snap.pc = "pub_nodes"
  /\ snap' = [snap EXCEPT !.pc = "idle", !.nodes = <<>>]
  /\ UNCHANGED <<main, graph, summary, nodes_snap, locks, rpc, seeds, nodes,
                 connections, connected, connecting, otherConns, sent, now,
                 dials, handlers, sched, used>>

\* main.rs:182: *nsnap.lock() = <the clone>; then the thread sleeps
SnapPublishNodes ==
  /\ Running
  /\ snap.pc = "pub_nodes"
  /\ CanLock("nodes")
  /\ nodes_snap' = [val |-> snap.nodes, cycle |-> snap.cycle]
  /\ snap' = [snap EXCEPT !.pc = "idle", !.nodes = <<>>]
  /\ UNCHANGED <<main, graph, summary, locks, rpc, seeds, nodes,
                 connections, connected, connecting, otherConns, sent, now,
                 dials, handlers, sched, used>>

Evict == EvictSnap \/ EvictRemove

Snapshot ==
  \/ Evict \/ SnapUpdateGraph \/ SnapBuildNodes
  \/ SnapBuildSummary \/ SnapPublishSummary \/ SnapCloneNodes
  \/ SnapPublishNodes

\* ------------------------------------------------------------ RPC handlers
\* u64::MAX of unwrap_or(u64::MAX): only its order against elapsed seconds
\* is used, so it is written as the largest 32-bit value
U64_MAX == 2147483647
RpcMethods == {"getmetrics", "getstats", "getnodes"}

ClientType(n) == classify_client(UnwrapOr(n.user_agent, <<>>))[1]
IsFlux(n) == classify_client(UnwrapOr(n.user_agent, <<>>))[2]

\* the counters of getstats and getnodes over the map nm
NetworkStats(nm, tip, runtime) ==
  LET contacted == {a \in DOMAIN nm : nm[a].user_agent # {}}
      OfType(ty) == Cardinality({a \in contacted : ClientType(nm[a]) = ty})
  IN [ num_known_nodes |-> Cardinality(DOMAIN nm),
       num_contacted_nodes |-> Cardinality(contacted),
       num_relevant_zcash_nodes |->
         Cardinality({a \in contacted :
                        is_relevant_zcash_node(nm[a], ZCASH_MAINNET_PORT, tip)}),
       num_zcashd_nodes |-> OfType("zcashd"),
       num_zebra_nodes |-> OfType("zebra"),
       num_flux_nodes |-> OfType("flux"),
       num_other_nodes |-> OfType("other"),
       tip_height_estimate |-> tip,
       crawler_runtime_secs |-> runtime ]

\* getnodes: the NodeInfo of one record
NodeInfo(a, n, tip, t) ==
  [ addr |-> a, protocol_version |-> n.protocol_version,
    user_agent |-> n.user_agent, height |-> n.start_height,
    services |-> n.services,
    last_seen_secs |-> IF n.last_connected = {} THEN U64_MAX
                       ELSE t - UnwrapOr(n.last_connected, 0),
    is_relevant |-> is_relevant_zcash_node(n, ZCASH_MAINNET_PORT, tip),
    is_flux |-> IsFlux(n), client_type |-> ClientType(n) ]

\* the comparator of getnodes: relevant first, then by last_seen_secs
NodeInfoLe(x, y) ==
  \/ x.is_relevant /\ ~y.is_relevant
  \/ x.is_relevant = y.is_relevant /\ x.last_seen_secs <= y.last_seen_secs

\* getnodes: the lists the handler can return (the sort is stable and the
\* map is iterated in no particular order)
NodeLists(nm, tip, include_flux, t) ==
  LET info(a) == NodeInfo(a, nm[a], tip, t)
      shown == {a \in DOMAIN nm :
                  /\ nm[a].user_agent # {}
                  /\ include_flux \/ ~info(a).is_flux
                  /\ include_flux \/ info(a).is_relevant}
  IN {[i \in DOMAIN p |-> info(p[i])] :
        p \in {q \in [1..Cardinality(shown) -> shown] :
                 /\ \A i, j \in DOMAIN q : i # j => q[i] # q[j]
                 /\ \A i, j \in DOMAIN q : i < j => NodeInfoLe(info(q[i]), info(q[j]))}}

\* a request arrives
RpcCall(h, m, flux) ==
  /\ Running
  /\ rpc[h].pc = "idle"
  /\ used.rpcs < MaxCalls
  /\ used' = [used EXCEPT !.rpcs = @ + 1]
  /\ rpc' = [rpc EXCEPT ![h] =
               [method |-> m, pc |-> IF m = "getmetrics" THEN "metrics" ELSE "lock_nodes",
                tip |-> 0, flux |-> flux, resp |-> {}]]
  /\ UNCHANGED <<main, graph, summary, nodes_snap, locks, seeds, nodes,
                 connections, connected, connecting, otherConns, sent, now,
                 dials, handlers, sched, snap>>

\* getmetrics: ctx.summary.lock().clone()
RpcGetMetrics(h) ==
  /\ Running
  /\ rpc[h].pc = "metrics"
  /\ CanLock("summary")
  /\ rpc' = [rpc EXCEPT ![h].pc = "idle", ![h].resp = {summary.val}]
  /\ UNCHANGED <<main, graph, summary, nodes_snap, locks, seeds, nodes,
                 connections, connected, connecting, otherConns, sent, now,
                 dials, handlers, sched, snap, used>>

\* getstats, getnodes: ctx.nodes.lock()
RpcLockNodes(h) ==
  /\ Running
  /\ rpc[h].pc = "lock_nodes"
  /\ CanLock("nodes")
  /\ locks' = [locks EXCEPT !.nodes = h]
  /\ rpc' = [rpc EXCEPT ![h].pc =
               IF rpc[h].method = "getstats" THEN "lock_summary" ELSE "tip"]
  /\ UNCHANGED <<main, graph, summary, nodes_snap, seeds, nodes,
                 connections, connected, connecting, otherConns, sent, now,
                 dials, handlers, sched, snap, used>>

\* getstats: ctx.summary.lock()
RpcLockSummary(h) ==
  /\ Running
  /\ rpc[h].pc = "lock_summary"
  /\ CanLock("summary")
  /\ locks' = [locks EXCEPT !.summary = h]
  /\ rpc' = [rpc EXCEPT ![h].pc = "tip"]
  /\ UNCHANGED <<main, graph, summary, nodes_snap, seeds, nodes,
                 connections, connected, connecting, otherConns, sent, now,
                 dials, handlers, sched, snap, used>>

\* getstats, getnodes: estimate_tip_height(&nodes)
RpcTip(h) ==
  /\ Running
  /\ rpc[h].pc = "tip"
  /\ rpc' = [rpc EXCEPT ![h].pc = "reply",
                        ![h].tip = estimate_tip_height(nodes_snap.val)]
  /\ UNCHANGED <<main, graph, summary, nodes_snap, locks, seeds, nodes,
                 connections, connected, connecting, otherConns, sent, now,
                 dials, handlers, sched, snap, used>>

\* the responses the handler can build from the slots as they are now
RpcResponses(r) ==
  IF r.method = "getstats"
  THEN {NetworkStats(nodes_snap.val, r.tip, summary.val.crawler_runtime)}
  ELSE {[stats |-> NetworkStats(nodes_snap.val, r.tip, 0), nodes |-> l] :
          l \in NodeLists(nodes_snap.val, r.tip, r.flux, now)}

\* getstats, getnodes: the loop over the map, the response, the guards drop
RpcReply(h) ==
  /\ Running
  /\ rpc[h].pc = "reply"
  /\ \E resp \in RpcResponses(rpc[h]) :
       rpc' = [rpc EXCEPT ![h].pc = "idle", ![h].resp = {resp}]
  /\ locks' = [s \in DOMAIN locks |-> IF locks[s] = h THEN NoHolder ELSE locks[s]]
  /\ UNCHANGED <<main, graph, summary, nodes_snap, seeds, nodes,
                 connections, connected, connecting, otherConns, sent, now,
                 dials, handlers, sched, snap, used>>

Rpc ==
  \E h \in 1..MaxRpc :
    \/ \E m \in RpcMethods :
         \E flux \in IF m = "getnodes" THEN BOOLEAN ELSE {FALSE} : RpcCall(h, m, flux)
    \/ RpcGetMetrics(h) \/ RpcLockNodes(h) \/ RpcLockSummary(h)
    \/ RpcTip(h) \/ RpcReply(h)

\* ------------------------------------------------------------ the clock
\* no whole second passes inside a code section that does not suspend; the
\* reap loop suspends in disconnect(addr).await
Quiescent ==
  /\ \A d \in BagToSet(dials) : d.pc = "conn"
  /\ \A a \in Addrs : handlers[a] = Idle
  /\ sched.pc \notin {"reap", "dispatch"}
  /\ snap.pc # "remove"

Advance ==
  /\ Running
  /\ used.adv < MaxAdvances
  /\ Quiescent
  /\ \E d \in ClockSteps : now' = now + d
  /\ used' = [used EXCEPT !.adv = @ + 1]
  /\ UNCHANGED <<rpcVars, seeds, nodes, connections, connected, connecting, otherConns,
                 sent, dials, handlers, sched, snap>>

Next ==
  \/ MainStart
  \/ Dial
  \/ Handler
  \/ Scheduler
  \/ \E a \in Addrs : DnsRefresh(a)
  \/ Evict
  \/ Advance

\* the crawl side: the store, the transport, the dial tasks, the handlers,
\* the scheduler, the DNS task and the eviction step of the snapshot thread
Spec == Init /\ [][Next]_vars

\* the same program started one connection below the cap
SpecCap == InitCap /\ [][Next]_vars

\* repeated dials of one address, from every value of its failure counter
NextCounter ==
  \/ \E a \in Addrs : Redial(a)
  \/ \E a \in Addrs :
       DialStart(a) \/ DialSucceed(a) \/ DialFail(a) \/ DialRecord(a)

SpecCounter == InitCounter /\ [][NextCounter]_vars

\* ------------------------------------------------------------ shutdown
\* main.rs:187-188: ctrl_c() returns and crawl_task.abort() is called; main
\* awaits the signal only once crawl_task and the snapshot thread are spawned
MainInterrupt ==
  /\ main.pc = "run"
  /\ sched.pc \notin {"off", "wait_conn", "wait_addrs"}
  /\ main' = [main EXCEPT !.pc = "await"]
  /\ UNCHANGED <<graph, summary, nodes_snap, locks, rpc, seeds, nodes, connections,
                 connected, connecting, otherConns, sent, now, dials, handlers,
                 sched, snap, used>>

\* the aborted task is dropped where it is suspended: before its first poll,
\* in sleep (main.rs:169) or in disconnect(addr).await (main.rs:149)
SchedCancel ==
  /\ AbortRequested
  /\ sched.pc \in {"tick", "sleep", "reap_set"}
  /\ sched' = [sched EXCEPT !.pc = "cancelled", !.t = 0, !.clone = {}, !.rest = {},
                            !.reaped = {}, !.cur = 0, !.targets = <<>>]
  /\ UNCHANGED <<rpcVars, seeds, nodes, connections, connected, connecting,
                 otherConns, sent, now, dials, handlers, snap, used>>

\* main.rs:189 returns without waiting for the task
Unwound_NoWait == TRUE

\* main.rs:189: crawl_task.await returns when the task has been dropped
Unwound == sched.pc = "cancelled"

MainAwait ==
  /\ main.pc = "await"
  /\ Unwound
  /\ main' = [main EXCEPT !.pc = "shutdown"]
  /\ UNCHANGED <<graph, summary, nodes_snap, locks, rpc, seeds, nodes, connections,
                 connected, connecting, otherConns, sent, now, dials, handlers,
                 sched, snap, used>>

\* main.rs:190: shut_down() closes every open connection
MainShutDown ==
  /\ main.pc = "shutdown"
  /\ connected' = {}
  /\ main' = [main EXCEPT !.pc = "log"]
  /\ UNCHANGED <<graph, summary, nodes_snap, locks, rpc, seeds, nodes, connections,
                 connecting, otherConns, sent, now, dials, handlers, sched, snap,
                 used>>

\* main.rs:191-194: the summary slot is locked, logged and written to the log
\* file; main returns ()
MainLog ==
  /\ main.pc = "log"
  /\ CanLock("summary")
  /\ main' = [main EXCEPT !.pc = "exit", !.exit = {0}, !.log = {summary.val}]
  /\ UNCHANGED <<graph, summary, nodes_snap, locks, rpc, seeds, nodes, connections,
                 connected, connecting, otherConns, sent, now, dials, handlers,
                 sched, snap, used>>

Shutdown == MainInterrupt \/ SchedCancel \/ MainAwait \/ MainShutDown \/ MainLog

\* the run of main from the spawned seed tasks to its return
InitShut ==
  /\ seeds \in {<<1>>, <<1, 2>>}
  /\ nodes = [a \in {} |-> KnownNodeDefault]
  /\ dials = SeedTasks(seeds)
  /\ InitCommon(0)

NextShut ==
  \/ Dial
  \/ Scheduler
  \/ \E a \in Addrs : DnsRefresh(a)
  \/ Shutdown
  \/ Advance

SpecShut == InitShut /\ [][NextShut]_vars

\* ------------------------------------------------------------ peer closes
\* the remote peer closes the connection or the connection ends on an I/O
\* error: the transport drops it; the crawler has no hook on this event
PeerClose(a) ==
  /\ Running
  /\ a \in connected
  /\ connected' = connected \ {a}
  /\ UNCHANGED <<rpcVars, seeds, nodes, connections, connecting, otherConns,
                 sent, now, dials, handlers, sched, snap, used>>

\* Instants are only read through elapsed(), and every elapsed time is
\* compared with a constant of at most LAST_SEEN_CUTOFF: d seconds pass when
\* every stored instant moves d seconds into the past, down to the horizon.
\* A connect attempt ends within CONNECTION_TIMEOUT, so none spans a step.
Horizon == LAST_SEEN_CUTOFF + 1
Shift(t, d) == IF t - d < now - Horizon THEN now - Horizon ELSE t - d

Elapse ==
  /\ Running
  /\ Quiescent
  /\ dials = EmptyBag
  /\ \E d \in ClockSteps :
       /\ nodes' = [a \in known |->
                      [nodes[a] EXCEPT !.last_connected = {Shift(x, d) : x \in @}]]
       /\ connections' = {[c EXCEPT !.last_seen = Shift(@, d)] : c \in connections}
       /\ sched' = [sched EXCEPT !.t = Shift(@, d),
                                 !.clone = {<<e[1], {Shift(x, d) : x \in e[2]}>> : e \in @},
                                 !.rest = {<<e[1], {Shift(x, d) : x \in e[2]}>> : e \in @}]
       /\ snap' = [snap EXCEPT !.next = Shift(@, d)]
  /\ UNCHANGED <<rpcVars, seeds, connected, connecting, otherConns, sent, now,
                 dials, handlers, used>>

\* the budgets bound one window of a run; a new window starts when no dial
\* task is left
Refill ==
  /\ Running
  /\ dials = EmptyBag
  /\ \E k \in DOMAIN used : used[k] # 0
  /\ used' = [k \in DOMAIN used |-> 0]
  /\ UNCHANGED <<rpcVars, seeds, nodes, connections, connected, connecting,
                 otherConns, sent, now, dials, handlers, sched, snap>>

\* crawl_task has been spawned and knows one seed; from then on the peer
\* accepts every dial and may close its connections, for any length of time
InitPeer ==
  /\ seeds = <<1>>
  /\ nodes = [a \in {1} |-> KnownNodeDefault]
  /\ dials = EmptyBag
  /\ InitAt(0, "run", "tick")

DialAccepted ==
  \E a \in Addrs : DialStart(a) \/ DialSucceed(a) \/ DialRecord(a)

NextPeer ==
  \/ DialAccepted
  \/ CrawlTask
  \/ \E a \in Addrs : PeerClose(a)
  \/ Elapse
  \/ Refill

\* the scheduler, the dial tasks and the clock keep going
SpecPeer ==
  /\ InitPeer
  /\ [][NextPeer]_vars
  /\ WF_vars(CrawlTask)
  /\ WF_vars(DialAccepted)
  /\ WF_vars(Elapse)
  /\ WF_vars(Refill)

\* ------------------------------------------------------------ scheduler ticks
\* crawl_task at the start of a tick, some time into the crawl: every address
\* is known, each record never dialled or last connected some seconds ago,
\* with or without the handshake fields, its connection open or not
SchedAges == {44, 45, 89, 90}
SchedStart == 100

SchedRecords ==
  {KnownNodeDefault} \cup
  {[n EXCEPT !.last_connected = {SchedStart - age}, !.state = st] :
     n \in {KnownNodeDefault} \cup {RecordVersion(KnownNodeDefault, v) : v \in VersionMsgs},
     age \in SchedAges, st \in {"Connected", "Disconnected"}}

InitSched ==
  /\ seeds = <<1>>
  /\ nodes \in [Addrs -> SchedRecords]
  /\ dials = EmptyBag
  /\ connections = {}
  /\ connected \in SUBSET {a \in Addrs : nodes[a].last_connected # {}}
  /\ connecting = {}
  /\ otherConns = 0
  /\ sent = [a \in Addrs |-> <<>>]
  /\ now = SchedStart
  /\ handlers = [a \in Addrs |-> Idle]
  /\ sched = [pc |-> "tick", t |-> 0, clone |-> {}, rest |-> {}, reaped |-> {},
              cur |-> 0, need |-> <<>>, have |-> <<>>,
              targets |-> <<>>]
  /\ snap = [pc |-> "off", next |-> 0, old |-> {}, cycle |-> 0,
             nodes |-> <<>>, built |-> {}]
  /\ used = [dials |-> 0, msgs |-> 0, ticks |-> 0, cycles |-> 0, adv |-> 0,
             rpcs |-> 0]
  /\ main = [pc |-> "run", exit |-> {}, log |-> {}, args |-> <<>>, dns |-> <<>>]
  /\ graph = {}
  /\ summary = [val |-> NetworkSummaryDefault, cycle |-> 0]
  /\ nodes_snap = [val |-> <<>>, cycle |-> 0]
  /\ locks = [summary |-> NoHolder, nodes |-> NoHolder]
  /\ rpc = [h \in 1..MaxRpc |-> RpcIdle]

NextSched ==
  \/ CrawlTask
  \/ DialAccepted
  \/ \E a \in Addrs : DialFail(a)
  \/ \E a \in Addrs : PeerClose(a)
  \/ Advance

\* the scheduler with the dial tasks it spawns, the peers and the clock
SpecSched == InitSched /\ [][NextSched]_vars

\* ------------------------------------------------------------ target lists
\* crawl_task at main.rs:163 with the two lists shuffled, for list lengths
\* around NUM_CONN_ATTEMPTS_PERIODIC: the addresses 1..n have no handshake
\* data, the addresses n+1..n+m have some, none is in cooldown
TargetLens ==
  {0, 1, 2, NUM_CONN_ATTEMPTS_PERIODIC - 1, NUM_CONN_ATTEMPTS_PERIODIC,
   NUM_CONN_ATTEMPTS_PERIODIC + 1}

\* two of the orders a shuffle can produce
Shuffles(lo, n) ==
  {[i \in 1..n |-> lo + i], [i \in 1..n |-> lo + n + 1 - i]}

InitTargets ==
  /\ seeds = <<1>>
  /\ \E n \in TargetLens, m \in TargetLens :
       /\ nodes = [a \in 1..(n + m) |->
                     IF a <= n THEN KnownNodeDefault
                     ELSE RecordVersion(KnownNodeDefault,
                                        CHOOSE v \in VersionMsgs : TRUE)]
       /\ \E p \in Shuffles(0, n), q \in Shuffles(n, m) :
            sched = [pc |-> "extend", t |-> 0, clone |-> {}, rest |-> {},
                     reaped |-> {}, cur |-> 0, need |-> p, have |-> q,
                     targets |-> <<>>]
  /\ dials = EmptyBag
  /\ connections = {}
  /\ connected = {}
  /\ connecting = {}
  /\ otherConns = 0
  /\ sent = [a \in Addrs |-> <<>>]
  /\ now = SchedStart
  /\ handlers = [a \in Addrs |-> Idle]
  /\ snap = [pc |-> "off", next |-> 0, old |-> {}, cycle |-> 0,
             nodes |-> <<>>, built |-> {}]
  /\ used = [dials |-> 0, msgs |-> 0, ticks |-> 0, cycles |-> 0, adv |-> 0,
             rpcs |-> 0]
  /\ main = [pc |-> "run", exit |-> {}, log |-> {}, args |-> <<>>, dns |-> <<>>]
  /\ graph = {}
  /\ summary = [val |-> NetworkSummaryDefault, cycle |-> 0]
  /\ nodes_snap = [val |-> <<>>, cycle |-> 0]
  /\ locks = [summary |-> NoHolder, nodes |-> NoHolder]
  /\ rpc = [h \in 1..MaxRpc |-> RpcIdle]

\* main.rs:164-166 on the two lists
SchedExtend ==
  /\ Running
  /\ sched.pc = "extend"
  /\ sched' = ExtendTargets(sched)
  /\ UNCHANGED <<rpcVars, seeds, nodes, connections, connected, connecting, otherConns,
                 sent, now, dials, handlers, snap, used>>

NextTargets == SchedExtend

\* the target list of one tick, from lists of every length around the limit
SpecTargets == InitTargets /\ [][NextTargets]_vars

\* ------------------------------------------------------------ RPC over given snapshots
\* the user agents and heights of the records of a published snapshot
StatAgents ==
  { UA_MagicBean542,
    <<"/", "M", "a", "g", "i", "c", "B", "e", "a", "n", ":", "5", ".", "9", ".", "9", "/">>,
    <<"/", "M", "a", "g", "i", "c", "B", "e", "a", "n", ":", "6", ".", "0", ".", "0", "/">>,
    <<"/", "M", "a", "g", "i", "c", "B", "e", "a", "n", ":", "7", ".", "0", ".", "0", "/">>,
    <<"/", "M", "a", "g", "i", "c", "B", "e", "a", "n", ":", "5", ".", "9", ".", "9", "(", "f", "l", "u", "x", ")", "/">>,
    <<"/", "Z", "e", "b", "r", "a", ":", "1", ".", "0", ".", "0", "/">> }
StatHeights ==
  {MIN_MAINNET_HEIGHT - 1, MIN_MAINNET_HEIGHT, MIN_MAINNET_HEIGHT + 1, 2700000}

StatRecords ==
  { [KnownNodeDefault EXCEPT !.user_agent = ua, !.start_height = h] :
      ua \in {{}} \cup {{x} : x \in StatAgents},
      h \in {{}} \cup {{x} : x \in StatHeights} }

StatMaps == UNION {[S -> StatRecords] : S \in SUBSET Addrs}

\* the RPC server answers over a snapshot the snapshot thread has published
InitStats ==
  /\ seeds = <<1>>
  /\ nodes \in StatMaps
  /\ dials = EmptyBag
  /\ connections = {}
  /\ connected = {}
  /\ connecting = {}
  /\ otherConns = 0
  /\ sent = [a \in Addrs |-> <<>>]
  /\ now = 0
  /\ handlers = [a \in Addrs |-> Idle]
  /\ sched = [pc |-> "sleep", t |-> 0, clone |-> {}, rest |-> {},
              reaped |-> {}, cur |-> 0, need |-> <<>>, have |-> <<>>,
              targets |-> <<>>]
  /\ snap = [pc |-> "idle", next |-> SUMMARY_INTERVAL, old |-> {}, cycle |-> 1,
             nodes |-> <<>>, built |-> {}]
  /\ used = [dials |-> 0, msgs |-> 0, ticks |-> 0, cycles |-> 0, adv |-> 0,
             rpcs |-> 0]
  /\ main = [pc |-> "run", exit |-> {}, log |-> {}, args |-> <<>>, dns |-> <<>>]
  /\ graph = {}
  /\ summary = [val |-> BuildSummary(nodes, {}, {}, 0), cycle |-> 1]
  /\ nodes_snap = [val |-> nodes, cycle |-> 1]
  /\ locks = [summary |-> NoHolder, nodes |-> NoHolder]
  /\ rpc = [h \in 1..MaxRpc |-> RpcIdle]

NextStats == Rpc

SpecStats == InitStats /\ [][NextStats]_vars

\* ------------------------------------------------------------ seed arguments
\* the --seed-addrs arguments: socket addresses and bare addresses as they
\* are displayed, host names, and an address with a port out of range
SeedIps == {<<127, 0, 0, 1>>, <<10, 0, 0, 2>>}
SeedPorts == {ZCASH_P2P_DEFAULT_MAINNET_PORT, 18233}
NumericSeeds ==
  {FormatIp(ip) : ip \in SeedIps} \cup
  {FormatSocketAddr([ip |-> ip, port |-> p]) : ip \in SeedIps, p \in SeedPorts}
HostSeeds ==
  { <<"s", "e", "e", "d", ".", "e", "x", "a", "m", "p", "l", "e">>,
    <<"s", "e", "e", "d", ".", "e", "x", "a", "m", "p", "l", "e", ":", "1", "8", "2", "3", "3">>,
    <<"1", "2", "7", ".", "0", ".", "0", ".", "1", ":", "9", "9", "9", "9", "9">> }
SeedArgs == NumericSeeds \cup HostSeeds
SeedArgLists == SeqsUpTo(SeedArgs, 1, MaxArgs)

\* main.rs:91-92: the arguments are parsed by clap, at least one seed
InitParse ==
  /\ seeds = <<>>
  /\ nodes = [a \in {} |-> KnownNodeDefault]
  /\ dials = EmptyBag
  /\ connections = {}
  /\ connected = {}
  /\ connecting = {}
  /\ otherConns = 0
  /\ sent = [a \in Addrs |-> <<>>]
  /\ now = 0
  /\ handlers = [a \in Addrs |-> Idle]
  /\ sched = [pc |-> "off", t |-> 0, clone |-> {}, rest |-> {},
              reaped |-> {}, cur |-> 0, need |-> <<>>, have |-> <<>>,
              targets |-> <<>>]
  /\ snap = [pc |-> "off", next |-> 0, old |-> {}, cycle |-> 0,
             nodes |-> <<>>, built |-> {}]
  /\ used = [dials |-> 0, msgs |-> 0, ticks |-> 0, cycles |-> 0, adv |-> 0,
             rpcs |-> 0]
  /\ \E l \in SeedArgLists :
       main = [pc |-> "parse", exit |-> {}, log |-> {}, args |-> l, dns |-> <<>>]
  /\ graph = {}
  /\ summary = [val |-> NetworkSummaryDefault, cycle |-> 0]
  /\ nodes_snap = [val |-> <<>>, cycle |-> 0]
  /\ locks = [summary |-> NoHolder, nodes |-> NoHolder]
  /\ rpc = [h \in 1..MaxRpc |-> RpcIdle]

\* main.rs:93: addrs = parse_addrs(seeds, args.node_listening_port), with
\* the default listening port
MainParse ==
  /\ main.pc = "parse"
  /\ \E r \in parse_addrs(main.args, ZCASH_P2P_DEFAULT_MAINNET_PORT) :
       /\ seeds' = r.out
       /\ main' = [main EXCEPT !.pc = "start", !.dns = r.dns]
  /\ UNCHANGED <<graph, summary, nodes_snap, locks, rpc, nodes, connections,
                 connected, connecting, otherConns, sent, now, dials, handlers,
                 sched, snap, used>>

NextParse == MainParse

SpecParse == InitParse /\ [][NextParse]_vars

\* main.rs:185: the seed tasks, the snapshot thread and the RPC server run
InitSnap ==
  /\ seeds = <<1>>
  /\ nodes = [a \in {} |-> KnownNodeDefault]
  /\ dials = SeedTasks(seeds)
  /\ connections = {}
  /\ connected = {}
  /\ connecting = {}
  /\ otherConns = 0
  /\ sent = [a \in Addrs |-> <<>>]
  /\ now = 0
  /\ handlers = [a \in Addrs |-> Idle]
  /\ sched = [pc |-> "sleep", t |-> 0, clone |-> {}, rest |-> {},
              reaped |-> {}, cur |-> 0, need |-> <<>>, have |-> <<>>,
              targets |-> <<>>]
  /\ snap = [pc |-> "idle", next |-> 0, old |-> {}, cycle |-> 0,
             nodes |-> <<>>, built |-> {}]
  /\ used = [dials |-> 0, msgs |-> 0, ticks |-> 0, cycles |-> 0, adv |-> 0,
             rpcs |-> 0]
  /\ main = [pc |-> "run", exit |-> {}, log |-> {}, args |-> <<>>, dns |-> <<>>]
  /\ graph = {}
  /\ summary = [val |-> NetworkSummaryDefault, cycle |-> 0]
  /\ nodes_snap = [val |-> <<>>, cycle |-> 0]
  /\ locks = [summary |-> NoHolder, nodes |-> NoHolder]
  /\ rpc = [h \in 1..MaxRpc |-> RpcIdle]

\* the snapshot thread and the RPC handlers over a store that the seed dial
\* and the message handlers change
NextSnap ==
  \/ Dial
  \/ Handler
  \/ Snapshot
  \/ Rpc
  \/ Advance

SpecSnap == InitSnap /\ [][NextSnap]_vars

\* ------------------------------------------------------------ several cycles
\* the snapshot thread sleeps until the next cycle is due: the budgets bound
\* one cycle, and the next one starts with fresh ones
NextCycle ==
  /\ Running
  /\ snap.pc = "idle"
  /\ used.cycles = MaxCycles
  /\ snap.cycle < MaxSnapshots
  /\ used' = [k \in DOMAIN used |-> IF k = "dials" THEN used[k] ELSE 0]
  /\ UNCHANGED <<rpcVars, seeds, nodes, connections, connected, connecting,
                 otherConns, sent, now, dials, handlers, sched, snap>>

\* both seeds have been dialled with success and the snapshot thread has
\* just been spawned
InitCycles ==
  /\ seeds = <<1, 2>>
  /\ nodes = [a \in {1, 2} |-> ConnectOk(KnownNodeDefault, 0, 0)]
  /\ dials = EmptyBag
  /\ connections = {}
  /\ connected = {1, 2}
  /\ connecting = {}
  /\ otherConns = 0
  /\ sent = [a \in Addrs |-> <<>>]
  /\ now = 0
  /\ handlers = [a \in Addrs |-> Idle]
  /\ sched = [pc |-> "sleep", t |-> 0, clone |-> {}, rest |-> {},
              reaped |-> {}, cur |-> 0, need |-> <<>>, have |-> <<>>,
              targets |-> <<>>]
  /\ snap = [pc |-> "idle", next |-> 0, old |-> {}, cycle |-> 0,
             nodes |-> <<>>, built |-> {}]
  /\ used = [dials |-> 0, msgs |-> 0, ticks |-> 0, cycles |-> 0, adv |-> 0,
             rpcs |-> 0]
  /\ main = [pc |-> "run", exit |-> {}, log |-> {}, args |-> <<>>, dns |-> <<>>]
  /\ graph = {}
  /\ summary = [val |-> NetworkSummaryDefault, cycle |-> 0]
  /\ nodes_snap = [val |-> <<>>, cycle |-> 0]
  /\ locks = [summary |-> NoHolder, nodes |-> NoHolder]
  /\ rpc = [h \in 1..MaxRpc |-> RpcIdle]

\* process_message for Addr messages
AddrHandler ==
  \E src \in Addrs :
    \/ \E list \in AddrLists : AddrEdges(src, list)
    \/ AddrNodes(src) \/ AddrDisconnect(src) \/ AddrSetState(src)

\* the Addr handlers and the snapshot thread over MaxSnapshots cycles
NextCycles ==
  \/ AddrHandler
  \/ Snapshot
  \/ Advance
  \/ NextCycle

SpecCycles == InitCycles /\ [][NextCycles]_vars

\* ============================================================ properties
\* a dial task writes its result in this step
Records(d) == d.pc = "record" /\ dials' = dials (-) SetToBag({d})

\* add_addrs of the handler of src is between its two lock scopes
InAddAddrs(src) == handlers[src].kind = "Addr" /\ handlers[src].pc = "nodes"

HasEdge(S, x, y) == \E c \in S : c.a = x /\ c.b = y

EdgeEndpointsKnown == \A c \in connections : c.a \in known /\ c.b \in known

\* C1: after every completed add_addrs(src, L), src and every address of L are
\* record keys and an edge (src, a) is in the edge set for each a of L; and
\* whenever no add_addrs call is in progress both endpoints of every edge are
\* record keys.
C1_AddAddrsCompleted ==
  /\ []((\A src \in Addrs : ~InAddAddrs(src)) => EdgeEndpointsKnown)
  /\ [][\A src \in Addrs :
          (InAddAddrs(src) /\ handlers'[src] # handlers[src]) =>
            LET L == Range(handlers[src].list)
            IN /\ ({src} \cup L) \subseteq DOMAIN nodes'
               /\ \A a \in L : HasEdge(connections', src, a)]_vars

\* C2: last_connected of a record never goes backwards: once Some(t) it never
\* becomes None and is never replaced by an earlier timestamp.
C2_LastConnectedMonotonic ==
  [][\A a \in known :
       /\ a \in DOMAIN nodes'
       /\ \A t \in nodes[a].last_connected :
            /\ nodes'[a].last_connected # {}
            /\ \A u \in nodes'[a].last_connected : u >= t]_vars

\* C3 as stated: every failed dial leaves connection_failures strictly greater
\* than before, for any number of consecutive failed dials, and a successful
\* dial leaves it at exactly 0.
C3_FailuresAlwaysIncrease ==
  [][\A d \in BagToSet(dials) :
       (Records(d) /\ d.addr \in known) =>
         IF d.ok THEN nodes'[d.addr].connection_failures = 0
         ELSE nodes'[d.addr].connection_failures > nodes[d.addr].connection_failures]_vars

\* C3 amended: a failed dial of a record whose connection_failures is below
\* 255 leaves it strictly greater than before, and a successful dial leaves it
\* at exactly 0.
C3_FailuresIncreaseBelowMax ==
  [][\A d \in BagToSet(dials) :
       (Records(d) /\ d.addr \in known) =>
         IF d.ok THEN nodes'[d.addr].connection_failures = 0
         ELSE nodes[d.addr].connection_failures < U8_MODULUS - 1 =>
                nodes'[d.addr].connection_failures > nodes[d.addr].connection_failures]_vars

\* two dials of address 1 have failed in a row and none has ever succeeded
C3_Witness ==
  /\ used.dials = MaxRedials
  /\ dials = EmptyBag
  /\ 1 \in known
  /\ nodes[1].last_connected = {}
  /\ nodes[1].connection_failures >= 2

\* C4: on Addr(L) from src the handler closes the connection to src and sets
\* the record Disconnected iff len(L) > 1, or len(L) = 1 and L[0] # src; with an
\* empty list or the sole entry src it leaves the connection and the record
\* state as they are.
C4_DisconnectIffUsableAddr ==
  [][\A src \in Addrs :
       LET h == handlers[src]
           g == handlers'[src]
       IN (h # g /\ (h.kind = "Addr" \/ g.kind = "Addr")) =>
            LET L == IF h.kind = "Addr" THEN h.list ELSE g.list
                usable == Len(L) > 1 \/ (Len(L) = 1 /\ L[1] # src)
            IN IF usable
               THEN /\ h.pc = "nodes" => g.pc = "disc"
                    /\ h.pc = "disc" => (src \notin connected' /\ g.pc = "setstate")
                    /\ h.pc = "setstate" =>
                         (g = Idle /\ (src \in DOMAIN nodes' =>
                                         nodes'[src].state = "Disconnected"))
               ELSE /\ g.pc \in {"nodes", "idle"}
                    /\ connected' = connected
                    /\ src \in known => nodes'[src].state = nodes[src].state]_vars

\* the handler of src has closed the connection after a usable Addr
C4_Witness ==
  \E src \in Addrs :
    /\ handlers[src].kind = "Addr"
    /\ handlers[src].pc = "setstate"
    /\ src \notin connected
    /\ src \in known
    /\ nodes[src].state = "Connected"

\* C5: should_connect(addr) is true only for a known addr, with connections
\* plus registered dials strictly below MAX_CONCURRENT_CONNECTIONS and addr
\* neither connected nor connecting; with exactly MAX_CONCURRENT_CONNECTIONS
\* connections it is false for every candidate.
C5_ShouldConnectOnlyBelowCap ==
  /\ \A a \in Addrs :
       should_connect(a) =>
         /\ a \in known
         /\ NumConnected + NumConnecting < MAX_CONCURRENT_CONNECTIONS
         /\ a \notin connected
         /\ a \notin connecting
  /\ NumConnected = MAX_CONCURRENT_CONNECTIONS =>
       \A a \in Addrs : ~should_connect(a)

\* the cap is reached and a known, unconnected candidate is refused
C5_Witness ==
  /\ NumConnected = MAX_CONCURRENT_CONNECTIONS
  /\ \E a \in known : a \notin connected /\ a \notin connecting /\ ~should_connect(a)

\* dial tasks that have been dispatched and have not finished dialling
InFlight == {d \in BagToSet(dials) : d.pc \in {"insert", "start", "conn"}}
NumInFlight == BagCardinality([d \in InFlight |-> dials[d]])

\* C6 as stated: connections plus dial tasks dispatched and not finished never
\* exceed MAX_CONCURRENT_CONNECTIONS (so a tick that starts k below the cap
\* dispatches at most k dials).
C6_DispatchedWithinCap ==
  NumConnected + NumInFlight <= MAX_CONCURRENT_CONNECTIONS

\* the scheduler's dispatch loop spawns a dial in this step
SchedSpawns ==
  /\ sched.pc = "dispatch"
  /\ sched'.targets # sched.targets
  /\ dials' # dials

\* C6 amended: the scheduler dispatches a dial only when connections plus the
\* dials registered with the transport are strictly below the cap at that
\* moment, so none while the cap is reached; dispatched tasks that have not
\* registered yet are not counted.
C6_DispatchOnlyBelowCap ==
  [][SchedSpawns =>
       NumConnected + NumConnecting < MAX_CONCURRENT_CONNECTIONS]_vars

\* the scheduler has dispatched a dial (the DNS task has not run yet)
C6_Witness ==
  /\ sched.pc \in {"dispatch", "sleep"}
  /\ used.dials >= 1
  /\ now < DNS_REFRESH

\* C7: a second add_addrs(src, L) leaves the record map as the first one left
\* it, and no add_addrs removes a record or changes a field of an existing one.
C7_AddAddrsIdempotent ==
  [][\A src \in Addrs :
       LET h == handlers[src]
           g == handlers'[src]
       IN /\ (h = Idle /\ g.kind = "Addr") => nodes' = nodes
          /\ (InAddAddrs(src) /\ g # h) =>
               /\ \A a \in known : a \in DOMAIN nodes' /\ nodes'[a] = nodes[a]
               /\ AddAddrsNodes(nodes', src, h.list) = nodes']_vars

\* add_addrs(src, <<b>>) has returned on a map that held a record of src with
\* a handshake on it, the edge (src, b) being known from an earlier call
C7_Witness ==
  \E src \in Addrs :
    /\ handlers[src].kind = "Addr"
    /\ handlers[src].pc = "disc"
    /\ Len(handlers[src].list) = 1
    /\ src \in known
    /\ nodes[src].last_connected # {}
    /\ \E c \in connections :
         c.a = src /\ c.b = handlers[src].list[1] /\ c.last_seen < now

\* C8: when add_addrs(src, L) observes an edge that is already stored, the
\* stored edge's last_seen becomes the time of the new observation.
C8_LastSeenRefreshed ==
  [][\A src \in Addrs :
       (handlers[src] = Idle /\ handlers'[src].kind = "Addr") =>
         \A a \in Range(handlers'[src].list) :
           \E c \in connections' : c.a = src /\ c.b = a /\ c.last_seen = now]_vars

\* C9: a record whose state is Connected has last_connected = Some(t).
C9_ConnectedHasLastConnected ==
  \A a \in known :
    nodes[a].state = "Connected" => nodes[a].last_connected # {}

\* a record is Connected
C9_Witness ==
  \E a \in known :
    nodes[a].state = "Connected" /\ nodes[a].last_connected # {}

\* C10: connection_failures of a record is lowered only by a successful dial
\* of that address.
C10_FailuresResetOnlyBySuccess ==
  [][\A a \in known :
       (a \in DOMAIN nodes' /\
        nodes'[a].connection_failures < nodes[a].connection_failures) =>
         \E d \in BagToSet(dials) : Records(d) /\ d.ok /\ d.addr = a]_vars

\* C11: connection_failures saturates: a failed dial of a record whose counter
\* is 255 leaves the counter at 255, it never wraps around to 0.
C11_FailuresSaturate ==
  [][\A d \in BagToSet(dials) :
       (Records(d) /\ ~d.ok /\ d.addr \in known /\
        nodes[d.addr].connection_failures = U8_MODULUS - 1) =>
         nodes'[d.addr].connection_failures = U8_MODULUS - 1]_vars

\* a summary as build_summary leaves it: the index domain is the list of good
\* nodes and every index of the adjacency list is inside it
CompleteSummary(v) ==
  /\ Len(v.node_addrs) = v.num_good_nodes
  /\ DOMAIN v.nodes_indices = DOMAIN v.node_addrs
  /\ v.num_good_nodes <= v.num_known_nodes
  /\ v.num_versions <= v.num_known_nodes
  /\ \A i \in DOMAIN v.nodes_indices :
       v.nodes_indices[i] \subseteq 0..(v.num_good_nodes - 1)

\* the handler h returns in this step
RpcReturns(h) == rpc[h].pc # "idle" /\ rpc'[h].pc = "idle"

\* C12: an RPC read that runs while the snapshot thread is in a cycle returns,
\* for each slot, the complete value published by the previous or by the
\* current cycle: each slot holds a complete value of one of these two cycles,
\* a slot does not change while a handler holds it, and a response is computed
\* from one value of the slot.
C12_ReadsSeeOnePublishedValue ==
  /\ [](/\ summary.cycle \in {snap.cycle - 1, snap.cycle}
        /\ nodes_snap.cycle \in {snap.cycle - 1, snap.cycle}
        /\ CompleteSummary(summary.val))
  /\ [][\A h \in 1..MaxRpc :
          /\ (locks.nodes = h /\ locks'.nodes = h) => nodes_snap' = nodes_snap
          /\ (locks.summary = h /\ locks'.summary = h) => summary' = summary
          /\ RpcReturns(h) =>
               rpc'[h].resp \subseteq
                 IF rpc[h].method = "getmetrics" THEN {summary.val}
                 ELSE RpcResponses([rpc[h] EXCEPT
                                      !.tip = estimate_tip_height(nodes_snap.val)])]_vars

\* getstats has returned while the snapshot thread waits to publish the record
\* map: the runtime is the one of the summary of the current cycle and the
\* counters are those of the empty map the slot still holds
C12_Witness ==
  \E h \in 1..MaxRpc :
    /\ rpc[h].method = "getstats"
    /\ rpc[h].pc = "idle"
    /\ snap.pc = "pub_nodes"
    /\ DOMAIN snap.nodes # {}
    /\ summary.cycle = snap.cycle
    /\ nodes_snap.cycle = snap.cycle - 1
    /\ rpc[h].resp # {}
    /\ \A r \in rpc[h].resp :
         r.crawler_runtime_secs > 0 /\ r.num_known_nodes = 0

\* C13: the publish step of a slot can be taken whenever the snapshot thread
\* has reached it, also while a getstats or getnodes handler computes over
\* the slot.
C13_PublishNeverBlocked ==
  /\ snap.pc = "pub_summary" => CanLock("summary")
  /\ snap.pc = "pub_nodes" => CanLock("nodes")

\* the scheduler takes the head of the target list in this step
SchedTakesTarget == sched.pc = "dispatch" /\ sched'.targets # sched.targets

\* C14: when P sends an Addr with addresses other than P that are not known,
\* the connection to P is closed and by the end of the next scheduler tick a
\* dial of each address has been dispatched, provided the cap is not reached
\* and at most 2000 candidates are eligible.  In steps: the handler leaves the
\* addresses as record keys and closes the connection; a key stays a key; the
\* selection of a tick takes every record that never connected; the tick
\* ends only when every target has been taken; and a target is dialled when
\* it is taken unless the cap is reached or a dial or a connection of it is
\* already there.
C14_AnnouncedAddrsDialled ==
  [][/\ \A src \in Addrs :
          LET h == handlers[src]
          IN /\ (InAddAddrs(src) /\ handlers'[src] # h) =>
                  /\ Range(h.list) \subseteq DOMAIN nodes'
                  /\ (\E i \in DOMAIN h.list : h.list[i] # src) =>
                       handlers'[src].pc = "disc"
             /\ (h.pc = "disc" /\ handlers'[src] # h) => src \notin connected'
     /\ known \subseteq DOMAIN nodes'
     /\ (sched.pc = "reap" /\ sched'.pc = "dispatch") =>
          (Cardinality({a \in known : ~InCooldown(nodes[a].last_connected, now)})
             <= NUM_CONN_ATTEMPTS_PERIODIC =>
           \A a \in known :
             nodes[a].last_connected = {} => a \in Range(sched'.targets))
     /\ (sched.pc = "dispatch" /\ sched'.pc # "dispatch") => sched.targets = <<>>
     /\ SchedTakesTarget =>
          LET a == Head(sched.targets)
          IN /\ sched'.targets = Tail(sched.targets)
             /\ (/\ NumConnected + NumConnecting < MAX_CONCURRENT_CONNECTIONS
                 /\ a \notin connected
                 /\ a \notin connecting) =>
                  dials' = dials (+) SetToBag({DialTask(a)})]_vars

\* peer 1 has announced address 2, its connection is closed, and the tick
\* after that has ended with the dial of address 2 dispatched
C14_Witness ==
  /\ sched.pc = "sleep"
  /\ HasEdge(connections, 1, 2)
  /\ 1 \notin connected
  /\ 1 \in known /\ nodes[1].state = "Disconnected" /\ nodes[1].last_connected # {}
  /\ 2 \notin Range(seeds)
  /\ now < DNS_REFRESH
  /\ \E d \in BagToSet(dials) : d.addr = 2

\* C15: every connection the crawler establishes is eventually closed by the
\* crawler, on a usable Addr or by the reap step after 90 s.  The reap step
\* closes only connections whose record is Connected, so the claim needs
\* every open connection to have a record that is Connected, or about to be
\* set Connected by the dial task that opened it, or a handler that is about
\* to close it.
C15_OpenConnectionsReapable ==
  \A a \in connected :
    \/ a \in known /\ nodes[a].state = "Connected"
    \/ \E d \in BagToSet(dials) : d.addr = a /\ d.pc = "record" /\ d.ok
    \/ handlers[a].pc = "disc"

\* C16: when the remote peer closes a connection the record is kept and,
\* under a fair scheduler, its state is Disconnected at some later time.
C16_PeerCloseLeadsToDisconnected ==
  \A a \in Addrs :
    (a \in known /\ nodes[a].state = "Connected" /\ a \notin connected)
      ~> (a \in known /\ nodes[a].state = "Disconnected")

\* the step of main that shuts the transport down, and the states after it
TransportShutDownStep == main.pc = "shutdown" /\ main'.pc = "log"
TransportShutDownStarted == main.pc \in {"log", "exit"}

\* C17: on interrupt main aborts the crawl task, waits until it has unwound,
\* then shuts the transport down, then writes the final summary to the log
\* file; the scheduler takes no step once the transport shutdown has started.
C17_ShutdownOrder ==
  [][/\ TransportShutDownStep => sched.pc = "cancelled"
     /\ main'.log # main.log => TransportShutDownStarted
     /\ (TransportShutDownStep \/ TransportShutDownStarted) => sched' = sched]_vars

\* an interrupted run whose scheduler had ticked has written its summary
C17_Witness ==
  /\ main.pc = "exit"
  /\ main.log # {}
  /\ sched.pc = "cancelled"
  /\ used.ticks > 0

\* C18: with an empty resolved seed list the process terminates with a
\* non-zero exit code and has dispatched no dial; an interrupted run
\* terminates with exit code 0.
C18_EmptySeedsExitNonZero ==
  main.pc = "exit" =>
    IF seeds = <<>>
    THEN 0 \notin main.exit /\ dials = EmptyBag /\ known = {}
    ELSE main.exit = {0}

\* the major version of a MagicBean user agent: the decimal digits that
\* follow "magicbean:" in the lower-cased agent
S_magicbean_colon == S_magicbean \o <<":">>
MajorStart(l) ==
  Len(S_magicbean_colon) +
    CHOOSE i \in 1..Len(l) :
      /\ SubSeq(l, i, i + Len(S_magicbean_colon) - 1) = S_magicbean_colon
      /\ \A j \in 1..(i - 1) :
           SubSeq(l, j, j + Len(S_magicbean_colon) - 1) # S_magicbean_colon
HasMajor(ua) ==
  LET l == ToLower(ua)
  IN /\ Contains(l, S_magicbean_colon)
     /\ MajorStart(l) <= Len(l)
     /\ l[MajorStart(l)] \in DOMAIN DigitVal
Major(ua) == ParseNat(ToLower(ua), MajorStart(ToLower(ua)), 0)

\* the NodeInfo entries of the getnodes responses
ReturnedInfos ==
  UNION {{resp.nodes[i] : i \in DOMAIN resp.nodes} :
           resp \in UNION {rpc[h].resp : h \in {k \in 1..MaxRpc :
                                                  /\ rpc[k].method = "getnodes"
                                                  /\ rpc[k].pc = "idle"}}}

\* C19: a user agent that contains MagicBean with a parseable major version
\* N classifies as flux when N >= 6 and as zcashd when N < 6 and the agent
\* has no flux substring.
C19_MagicBeanMajorDecides ==
  \A ni \in ReturnedInfos :
    \A ua \in ni.user_agent :
      HasMajor(ua) =>
        /\ Major(ua) >= 6 => ni.client_type = "flux" /\ ni.is_flux
        /\ Major(ua) < 6 /\ ~Contains(ToLower(ua), S_flux) =>
             ni.client_type = "zcashd" /\ ~ni.is_flux

\* C20: a record whose start_height is exactly 2,500,000 is never relevant,
\* whatever its user agent and the other records of the snapshot.
C20_MinHeightNeverRelevant ==
  \A ni \in ReturnedInfos : ni.height = {MIN_MAINNET_HEIGHT} => ~ni.is_relevant

\* the socket address a numeric seed denotes: the one displayed as the
\* seed, or the bare address with the default port
Denoted(text) ==
  {[ip |-> ip, port |-> p] :
     ip \in {x \in SeedIps : FormatIp(x) = text},
     p \in {ZCASH_P2P_DEFAULT_MAINNET_PORT}} \cup
  {sa \in [ip : SeedIps, port : SeedPorts] : FormatSocketAddr(sa) = text}

Parsed == main.pc = "start" /\ main.args # <<>>

\* C21: parse_addrs resolves numeric seeds without DNS, one to one and in
\* input order: ip:port yields that socket address and a bare IP yields that
\* IP with the default port.
C21_NumericSeedsParsed ==
  (Parsed /\ \A i \in DOMAIN main.args : main.args[i] \in NumericSeeds) =>
    /\ main.dns = <<>>
    /\ Len(seeds) = Len(main.args)
    /\ \A i \in DOMAIN main.args : Denoted(main.args[i]) = {seeds[i]}

\* a bare address and a socket address with another port have been parsed
C21_Witness ==
  /\ Parsed
  /\ main.args = <<FormatIp(<<127, 0, 0, 1>>),
                   FormatSocketAddr([ip |-> <<10, 0, 0, 2>>, port |-> 18233])>>
  /\ seeds = <<[ip |-> <<127, 0, 0, 1>>, port |-> 8233],
               [ip |-> <<10, 0, 0, 2>>, port |-> 18233]>>

\* C22: in every reachable state, also between the two lock scopes of an
\* add_addrs call, both endpoints of every edge are keys of the record map.
C22_EdgeEndpointsAlwaysKnown ==
  \A c \in connections : {c.a, c.b} \subseteq known

\* ---------------------------------------------------------------- C23
\* a last_connected that is 90 s old or more at instant t
OldAt(lc, t) == \E x \in lc : t - x >= 90

\* the steps of the reap loop of one tick
ReapDisconnects == sched.pc = "reap" /\ sched'.pc = "reap_set"
ReapSetsState == sched.pc = "reap_set" /\ sched'.pc = "reap"
ReapEnds == sched.pc = "reap" /\ sched'.pc = "dispatch"

\* what the loop does to the entry it has reached, and to nothing else
ReapTouchesOnlyCurrent ==
  /\ ReapDisconnects =>
       /\ connected' = connected \ {sched'.cur}
       /\ nodes' = nodes
       /\ \E e \in sched.clone : e[1] = sched'.cur
  /\ ReapSetsState =>
       /\ sched.cur \in known
       /\ nodes' = [nodes EXCEPT ![sched.cur].state = "Disconnected"]
       /\ connected' = connected

\* every record that was Connected for 90 s or more when the tick started
\* has been disconnected and set to Disconnected when the loop ends
ReapedAllOld ==
  ReapEnds =>
    \A e \in sched.clone :
      OldAt(e[2], sched.t) => e[1] \in sched.reaped

\* C23 as stated: at the end of the reap step of a tick, every record that
\* was Connected with last_connected at least 90 s old at the start of the
\* step has been disconnected and set to Disconnected, and no record that
\* was Connected for less than 90 s at the start of the step has been
\* disconnected or changed by the step.
C23_ReapExactlyOldAtStart ==
  [][ /\ ReapTouchesOnlyCurrent
      /\ ReapedAllOld
      /\ ReapEnds =>
           \A e \in sched.clone :
             e[1] \in sched.reaped => OldAt(e[2], sched.t) ]_vars

\* C23 amended: at the end of the reap step of a tick, every record that was
\* Connected with last_connected at least 90 s old at the start of the step
\* has been disconnected and set to Disconnected, and the step disconnects
\* or changes no record other than one that was Connected at the start of
\* the step and whose last_connected was at least 90 s old when the loop
\* reached it.
C23_ReapExactlyOldWhenReached ==
  [][ /\ ReapTouchesOnlyCurrent
      /\ ReapedAllOld
      /\ ReapDisconnects =>
           \E e \in sched.clone :
             e[1] = sched'.cur /\ OldAt(e[2], now) ]_vars

\* the loop is at its end: it has reaped a record and has left alone one
\* that is Connected for less than 90 s, its connection still open
C23_Witness ==
  /\ sched.pc = "reap"
  /\ sched.reaped # {}
  /\ \A e \in sched.rest : ~OldAt(e[2], now)
  /\ \E e \in sched.clone :
       /\ ~OldAt(e[2], now)
       /\ e[1] \in connected
       /\ nodes[e[1]].state = "Connected"
       /\ nodes[e[1]].last_connected = e[2]

\* ---------------------------------------------------------------- C24
\* C24: the scheduler never dispatches a dial to an address whose record has
\* a last_connected less than 45 s old at the moment of the dispatch, whatever
\* the other tasks do between the selection of the candidates and the dispatch.
C24_NoDispatchInCooldown ==
  [][SchedSpawns =>
       \A x \in nodes[Head(sched.targets)].last_connected :
         now - x >= RECONNECT_INTERVAL_SECS]_vars

\* ---------------------------------------------------------------- C25
\* the step that builds the target list of a tick
TargetsBuilt == sched.pc \in {"reap", "extend"} /\ sched'.pc = "dispatch"

\* the addresses the selection may take, by the record map at that instant
Eligible ==
  {a \in known : \A x \in nodes[a].last_connected : now - x >= 45}
EligibleNeed == {a \in Eligible : nodes[a].user_agent = {}}
EligibleHave == {a \in Eligible : nodes[a].user_agent # {}}

\* C25: the target list of a tick has at most NUM_CONN_ATTEMPTS_PERIODIC
\* (2000) entries and no duplicates, and it contains an address that has
\* handshake data only if every eligible address without handshake data is
\* in it.
C25_TargetsNeedInfoFirst ==
  [][TargetsBuilt =>
       LET T == sched'.targets
       IN /\ Len(T) <= 2000
          /\ Cardinality(Range(T)) = Len(T)
          /\ Range(T) \subseteq Eligible
          /\ Range(T) \cap EligibleHave # {} => EligibleNeed \subseteq Range(T)]_vars

\* the list is full and an address without handshake data did not fit
C25_Witness ==
  /\ sched.pc = "dispatch"
  /\ Len(sched.targets) = NUM_CONN_ATTEMPTS_PERIODIC
  /\ \E a \in known : nodes[a].user_agent = {} /\ a \notin Range(sched.targets)
  /\ \E a \in known : nodes[a].user_agent # {}

\* ---------------------------------------------------------------- C26
\* the dial of a has failed and connect writes the result in this step
FailedDialRecorded(a) ==
  \E d \in TasksAt(a, "record") : ~d.ok /\ dials' = dials (-) SetToBag({d})

\* the dial of a fails in the transport in this step
DialFails(a) ==
  \E d \in TasksAt(a, "conn") :
    dials' = Replace(d, [d EXCEPT !.pc = "record", !.ok = FALSE])

\* C26: a failed dial of addr changes nothing in the store except
\* connection_failures of addr's record: its last_connected, handshake_time,
\* state and Version fields, every other record and the edge set are
\* unchanged; for an addr without a record the store is unchanged.
C26_FailedDialFrame ==
  [][\A a \in Addrs :
       /\ DialFails(a) => nodes' = nodes /\ connections' = connections
       /\ FailedDialRecorded(a) =>
            /\ connections' = connections
            /\ DOMAIN nodes' = DOMAIN nodes
            /\ \A b \in known \ {a} : nodes'[b] = nodes[b]
            /\ a \in known =>
                 nodes'[a] = [nodes[a] EXCEPT !.connection_failures =
                                                nodes'[a].connection_failures]
       /\ a \notin known => ConnectUpdate(nodes, a, FALSE, now, now) = {nodes}]_vars

\* a dial has failed for a record that had been connected before, with
\* another record and an edge in the store
C26_Witness ==
  \E a \in known :
    /\ nodes[a].connection_failures >= 1
    /\ nodes[a].last_connected # {}
    /\ known # {a}
    /\ connections # {}

\* ---------------------------------------------------------------- C27
\* the handler of src writes a reply in this step
Replies(src) == sent'[src] # sent[src] /\ sent'[src] # <<>>

\* the handler of src takes a Version message in this step
TakesVersion(src, v) ==
  handlers[src] = Idle /\ handlers'[src].kind = "Version" /\ handlers'[src].ver = {v}

\* C27: on an inbound Version from src the four Version fields of src's record
\* are set from the message before any reply is sent, the replies are Verack
\* followed by GetAddr, GetAddr is never sent on a connection before Verack,
\* and when sending Verack fails no GetAddr is sent.
C27_VersionRepliesInOrder ==
  /\ [](\A src \in Addrs :
         \A i \in 1..Len(sent[src]) :
           sent[src][i] = "GetAddr" => i > 1 /\ sent[src][i - 1] = "Verack")
  /\ [][\A src \in Addrs :
          /\ \A v \in VersionMsgs :
               TakesVersion(src, v) =>
                 /\ sent'[src] = sent[src]
                 /\ src \in known =>
                      /\ nodes'[src].protocol_version = {v.version}
                      /\ nodes'[src].user_agent = {v.user_agent}
                      /\ nodes'[src].services = {v.services}
                      /\ nodes'[src].start_height = {v.start_height}
          /\ Replies(src) =>
               /\ handlers[src].kind = "Version"
               /\ \/ handlers[src].pc = "verack" /\ sent'[src] = Append(sent[src], "Verack")
                  \/ handlers[src].pc = "getaddr" /\ sent'[src] = Append(sent[src], "GetAddr")
          /\ handlers[src].pc = "verack" /\ sent'[src] = sent[src]
               => handlers'[src].pc # "getaddr"]_vars

\* ---------------------------------------------------------------- C28
\* the steps of remove_old_connections
EvictionStarts == snap.pc = "idle" /\ snap'.pc \in {"remove", "graph"}
EvictionRemoves == snap.pc = "remove" /\ snap'.pc = "graph"

\* an edge last seen more than 600 s before instant t
StaleAt(c, t) == t - c.last_seen > 600

SummaryBuilt == snap.pc = "build_conns" /\ snap'.pc = "pub_summary"

\* the pairs of addresses the live edge set links
LiveEdges == {GraphEdge(c.a, c.b) : c \in connections}

\* nodes_indices of summary v links the addresses a and b
Linked(v, a, b) ==
  \E i, j \in DOMAIN v.node_addrs :
    /\ v.node_addrs[i] = a
    /\ v.node_addrs[j] = b
    /\ (j - 1) \in v.nodes_indices[i]

\* C29: the adjacency graph from which nodes_indices of a cycle is computed
\* contains only edges of the live edge set: an edge evicted from the edge
\* set no longer links its endpoints in nodes_indices of that summary or of
\* a later one, unless it has been observed again.
C29_GraphOnlyLiveEdges ==
  [][SummaryBuilt =>
       /\ graph \subseteq LiveEdges
       /\ \A v \in snap'.built : \A a, b \in Addrs :
            Linked(v, a, b) => GraphEdge(a, b) \in LiveEdges]_vars

DnsSpawns == used'.dials = used.dials + 1 /\ sched' = sched

\* C31: for a resolved address that is not yet a key of the record map the
\* DNS refresh inserts a default record and dispatches exactly one dial, and
\* for one that is already known it leaves the record unchanged and
\* dispatches no dial.
C31_DnsRefreshOnlyNew ==
  /\ [][DnsSpawns =>
          \E a \in Addrs \ known :
            /\ DOMAIN nodes' = known \cup {a}
            /\ nodes'[a] = KnownNodeDefault
            /\ \A b \in known : nodes'[b] = nodes[b]
            /\ dials' = dials (+) SetToBag({DialTask(a)})
            /\ connections' = connections]_vars
  /\ [](\A a \in known : DnsInsert(nodes, a) = [nodes |-> nodes, new |-> FALSE])

\* the refresh has found an address that no peer announced and that is no
\* seed, next to a record that a dial has written
C31_Witness ==
  /\ now >= DNS_REFRESH
  /\ \E a \in known :
       /\ a \notin Range(seeds)
       /\ \A c \in connections : c.b # a
       /\ nodes[a] = KnownNodeDefault
       /\ BagIn(DialTask(a), dials)
       /\ \E b \in known \ {a} : nodes[b] # KnownNodeDefault

\* ---------------------------------------------------------------- C32
\* C32: once the handler of src has closed the connection after a usable Addr
\* and has set the record Disconnected, the record keeps that state until a
\* later dial of src succeeds: no record update sets it Connected while src
\* has no open connection.
C32_NoLateConnected ==
  [][\A src \in known :
       /\ handlers[src] = Idle
       /\ src \notin connected
       /\ nodes[src].state = "Disconnected"
       /\ nodes'[src].state = "Connected"
       => src \in connected']_vars

\* ---------------------------------------------------------------- C33
\* the tasks that take slot locks: the RPC handlers, the snapshot thread, main
SnapThread == MaxRpc + 1
MainTask == MaxRpc + 2
LockTasks == 1..MainTask

\* the slots whose lock() the task is in, or is about to call
Requests(t) ==
  IF t \in 1..MaxRpc
  THEN CASE rpc[t].pc = "metrics" -> {"summary"}
         [] rpc[t].pc = "lock_nodes" -> {"nodes"}
         [] rpc[t].pc = "lock_summary" -> {"summary"}
         [] OTHER -> {}
  ELSE IF t = SnapThread
  THEN CASE snap.pc = "pub_summary" -> {"summary"}
         [] snap.pc = "pub_nodes" -> {"nodes"}
         [] OTHER -> {}
  ELSE IF main.pc = "log" THEN {"summary"} ELSE {}

WaitsOn(t, u) == \E s \in Requests(t) : locks[s] = u

\* with two slot locks a cycle of waiting tasks has one or two members
NoCircularWait ==
  \A t, u \in LockTasks : ~(WaitsOn(t, u) /\ WaitsOn(u, t))

\* the fair run of the snapshot thread and of the RPC handlers' steps after
\* a request has arrived
RpcStep(h) ==
  RpcGetMetrics(h) \/ RpcLockNodes(h) \/ RpcLockSummary(h) \/ RpcTip(h)
    \/ RpcReply(h)

\* both seeds are connected, peer 1 has advertised peer 2, the scheduler
\* sleeps, the snapshot thread and the RPC server have just been started
InitLocks ==
  /\ seeds = <<1, 2>>
  /\ nodes = [a \in {1, 2} |-> ConnectOk(KnownNodeDefault, 0, 0)]
  /\ dials = EmptyBag
  /\ connections = {NewConnection(1, 2, 0)}
  /\ connected = {1, 2}
  /\ connecting = {}
  /\ otherConns = 0
  /\ sent = [a \in Addrs |-> <<>>]
  /\ now = 0
  /\ handlers = [a \in Addrs |-> Idle]
  /\ sched = [pc |-> "sleep", t |-> 0, clone |-> {}, rest |-> {},
              reaped |-> {}, cur |-> 0, need |-> <<>>, have |-> <<>>,
              targets |-> <<>>]
  /\ snap = [pc |-> "idle", next |-> 0, old |-> {}, cycle |-> 0,
             nodes |-> <<>>, built |-> {}]
  /\ used = [dials |-> 0, msgs |-> 0, ticks |-> 0, cycles |-> 0, adv |-> 0,
             rpcs |-> 0]
  /\ main = [pc |-> "run", exit |-> {}, log |-> {}, args |-> <<>>, dns |-> <<>>]
  /\ graph = {}
  /\ summary = [val |-> NetworkSummaryDefault, cycle |-> 0]
  /\ nodes_snap = [val |-> <<>>, cycle |-> 0]
  /\ locks = [summary |-> NoHolder, nodes |-> NoHolder]
  /\ rpc = [h \in 1..MaxRpc |-> RpcIdle]

\* the tasks that take slot locks, and the clock
NextLocks ==
  \/ Snapshot
  \/ Rpc
  \/ Shutdown
  \/ Advance

\* the snapshot thread, a handler whose request has arrived and main after
\* the interrupt keep running
SpecLocks ==
  /\ InitLocks
  /\ [][NextLocks]_vars
  /\ WF_vars(Snapshot)
  /\ \A h \in 1..MaxRpc : WF_vars(RpcStep(h))
  /\ WF_vars(SchedCancel \/ MainAwait \/ MainShutDown \/ MainLog)

\* C33: no task waits for a lock held by a task that waits for a lock the
\* first one holds (nor for a lock it holds itself), and every task that is
\* in lock() of a slot gets past it unless the process exits first.
C33_NoLockDeadlock ==
  /\ []NoCircularWait
  /\ \A t \in LockTasks :
       (Requests(t) # {}) ~> (Requests(t) = {} \/ main.pc = "exit")

\* a getstats handler holds the record-map slot and asks for the summary slot
\* while the snapshot thread is at its own store to the summary slot
C33_Witness ==
  \E h \in 1..MaxRpc :
    /\ locks.nodes = h
    /\ Requests(h) = {"summary"}
    /\ Requests(SnapThread) = {"summary"}

\* ---------------------------------------------------------------- C34
\* C34: in every reachable state of the store a record with user_agent
\* present has last_connected present, so every contacted record is a good
\* record.
C34_ContactedIsGood ==
  \A a \in known : nodes[a].user_agent # {} => nodes[a].last_connected # {}

\* ---------------------------------------------------------------- C35
\* a dial task is spawned (main.rs:127, main.rs:168)
DialDispatched == used'.dials = used.dials + 1

\* a dial task calls connect (protocol.rs:34-37)
DialBegins ==
  \E d \in BagToSet(dials) :
    d.pc = "start" /\ CopiesIn(d, dials') < CopiesIn(d, dials)

\* C35: once the transport shutdown triggered by the interrupt has started,
\* no task dispatches a dial and no dial task begins a connect.
C35_NoDialAfterShutDown ==
  [][TransportShutDownStarted => ~DialDispatched /\ ~DialBegins]_vars
====
